---------------------------- MODULE Spec2Model ----------------------------
(***************************************************************************)
(* Reward & ledger engine of the platform: the account store (User         *)
(* documents), the coin ledger (CoinTransaction documents) and the request *)
(* handlers and services that change them.                                 *)
(*                                                                         *)
(* Node runs one handler at a time and switches between requests only at   *)
(* an `await`.  Every action below is therefore one store call together    *)
(* with the synchronous code that follows it up to the next store call.    *)
(* A Mongoose document loaded by a handler is a private snapshot; save()   *)
(* writes the modified paths of the snapshot with $set, while              *)
(* findOneAndUpdate / updateOne evaluate their filter and apply their      *)
(* update operators atomically on the stored document.                     *)
(***************************************************************************)
EXTENDS Integers, Sequences, FiniteSets, TLC

VARIABLES
    users,      \* the User collection: id -> document
    initial,    \* the User collection as it was in the initial state (never changes)
    history,    \* whether a request keeps the store it found on arrival (never changes)
    ledger,     \* the CoinTransaction collection, in insertion order
    auditLog,   \* the AuditLog collection, in insertion order
    now,        \* Date.now(), in hours
    req         \* the requests in flight: slot -> handler position and locals

vars == <<users, initial, history, ledger, auditLog, now, req>>

-----------------------------------------------------------------------------
(* Bounds of the model *)

NumProcs == 2
MaxLedger == 3
MaxStat == 3
MaxTime == 3
MaxRateLedger == 21

Procs == 1..NumProcs

-----------------------------------------------------------------------------
(* Accounts *)

None == "none"

\* "alice" and "bob" are ordinary accounts, "root" is the bootstrapped admin,
\* "ghost" is an id / username that resolves to no document.
UserIds == {"alice", "bob", "root"}
AllIds == UserIds \cup {"ghost"}

StatKeys == {"dmMessagesSent", "imagesSent"}

NewUser(r, lv, c) ==
    [exists |-> TRUE, role |-> r, level |-> lv, coins |-> c,
     isBannedFromCoins |-> FALSE, isBannedFromChat |-> FALSE,
     isDeleted |-> FALSE,
     achievements |-> << >>, unlocks |-> {},
     stats |-> [k \in StatKeys |-> 0],
     awardedAchievements |-> << >>, achievementPoints |-> 0]

NoUser == [NewUser("user", 1, 0) EXCEPT !.exists = FALSE]

\* The codes of an achievements array, in order.
Codes(achs) == [i \in 1..Len(achs) |-> achs[i].code]

Count(seq, x) == Cardinality({i \in 1..Len(seq) : seq[i] = x})

RECURSIVE SumAmounts(_)
SumAmounts(txs) ==
    IF txs = << >> THEN 0 ELSE Head(txs).amount + SumAmounts(Tail(txs))

Max(a, b) == IF a >= b THEN a ELSE b
\* The magnitude taken as the signed number itself.
Abs_Identity(a) == a
Abs(a) == IF a >= 0 THEN a ELSE -a

-----------------------------------------------------------------------------
(* Ledger *)

\* A description template with its string and numeric arguments.
Desc(text, arg, n1, n2) == [text |-> text, arg |-> arg, n1 |-> n1, n2 |-> n2]

Tx(type, from, to, amount, description) ==
    [type |-> type, fromUserId |-> from, toUserId |-> to, amount |-> amount,
     description |-> description, createdAt |-> now]

\* An insert that overwrites the newest entry instead of adding one.
Insert_Replacing(entries, entry) ==
    IF entries = << >> THEN << entry >>
    ELSE [entries EXCEPT ![Len(entries)] = entry]

\* An insert that is acknowledged and stores nothing.
Insert_Dropped(entries, entry) == entries

\* CoinTransaction.create(entry): the collection with the new document;
\* no call of the program updates or deletes one.
Insert(entries, entry) == Append(entries, entry)

-----------------------------------------------------------------------------
(* Requests *)

\* A number as a request carries it: Number(x) is finite with value n, or it
\* is NaN / Infinity.
Num(n) == [finite |-> TRUE, whole |-> TRUE, n |-> n]
NaN == [finite |-> FALSE, whole |-> FALSE, n |-> 0]
\* n + 0.5
Half(n) == [finite |-> TRUE, whole |-> FALSE, n |-> n]

\* Number.isFinite(d)
IsFinite(d) == d.finite

\* A body field that may hold a boolean: typeof x === "boolean" is `given`.
Bool(b) == [given |-> TRUE, v |-> b]
Absent == [given |-> FALSE, v |-> FALSE]

IdleReq ==
    [kind |-> None, pc |-> "idle", actor |-> None, user |-> NoUser,
     targetId |-> None, target |-> NoUser, amt |-> 0, lvl |-> 0, key |-> None,
     codes |-> << >>, since |-> 0, status |-> 0, error |-> None, ret |-> None,
     path |-> None, awarded |-> None,
     feature |-> None, statKey |-> None, delta |-> 0, ms |-> << >>,
     nAwarded |-> 0, newValue |-> 0, reason |-> None, raw |-> NaN,
     chatBan |-> Absent, coinsBan |-> Absent, failedAt |-> None,
     pre |-> [i \in AllIds |-> NoUser], preLedger |-> 0]

InFlight(p) == req[p].pc \notin {"idle", "done"}
Quiet == \A p \in Procs : ~InFlight(p)

\* res.status(s).json({error: e}) / res.json({ok: true})
Respond(r, s, e) == [r EXCEPT !.pc = "done", !.status = s, !.error = e]

\* A new request on slot p: its locals and, as history for the properties
\* that compare before and after, the store as it is on arrival.
Arrive(p, kind, actor) ==
    IF history
    THEN [IdleReq EXCEPT !.kind = kind, !.actor = actor, !.pre = users,
                         !.preLedger = Len(ledger)]
    ELSE [IdleReq EXCEPT !.kind = kind, !.actor = actor]


-----------------------------------------------------------------------------
(* services/achievements.js *)

ACHIEVEMENTS ==
    [FIRST_LOGIN      |-> [title |-> "First Login",      coinsReward |-> 10],
     LEVEL2_UNLOCKED  |-> [title |-> "Unlocked Level 2", coinsReward |-> 50],
     LEVEL3_UNLOCKED  |-> [title |-> "Unlocked Level 3", coinsReward |-> 75],
     FIRST_BUG_REPORT |-> [title |-> "First Bug Report", coinsReward |-> 25]]

AchievementCodes == DOMAIN ACHIEVEMENTS

\* const reward = Number(def.coinsReward) || 0
Reward(code) == ACHIEVEMENTS[code].coinsReward

HasAchievement(doc, code) == \E i \in 1..Len(doc.achievements) : doc.achievements[i].code = code

\* The first filter without its "achievements.code": { $ne } clause.
AwardCoinsFilter_NoCodeClause(doc, code) ==
    /\ doc.exists
    /\ doc.isBannedFromCoins # TRUE

\* Filter of the first findOneAndUpdate: the document exists, does not hold
\* the code, and is not coin-banned.
AwardCoinsFilter(doc, code) ==
    /\ doc.exists
    /\ ~HasAchievement(doc, code)
    /\ doc.isBannedFromCoins # TRUE

\* The second filter without its "achievements.code": { $ne } clause.
AwardNoCoinsFilter_NoCodeClause(doc, code) == doc.exists

\* Filter of the second findOneAndUpdate: the same without the ban clause.
AwardNoCoinsFilter(doc, code) ==
    /\ doc.exists
    /\ ~HasAchievement(doc, code)

\* The second update paying the reward as the first does.
PushAchievement_WithCoins(doc, code) ==
    [doc EXCEPT !.achievements =
        Append(@, [code |-> code, title |-> ACHIEVEMENTS[code].title, earnedAt |-> now]),
                !.coins = @ + ACHIEVEMENTS[code].coinsReward]

\* $push: { achievements: { code, title, earnedAt } }
PushAchievement(doc, code) ==
    [doc EXCEPT !.achievements =
        Append(@, [code |-> code, title |-> ACHIEVEMENTS[code].title, earnedAt |-> now])]

\* The first update pushing the achievement without the $inc.
AwardCoinsUpdate_NoInc(doc, code) == PushAchievement(doc, code)

\* The update of the first findOneAndUpdate: $push, and $inc when reward > 0.
AwardCoinsUpdate(doc, code) ==
    IF Reward(code) > 0
    THEN [PushAchievement(doc, code) EXCEPT !.coins = @ + Reward(code)]
    ELSE PushAchievement(doc, code)

\* awardAchievement returns to its caller: the next awaited call of the
\* caller, or the caller's response.
AwardReturn(r, ret, path) ==
    LET r1 == [r EXCEPT !.codes = Tail(@), !.ret = ret, !.path = path,
                         !.awarded = Head(r.codes)] IN
    IF r1.codes # << >> THEN [r1 EXCEPT !.pc = "aw_coins"]
    ELSE IF r.kind = "levelup" THEN Respond(r1, 200, None)
    ELSE [r1 EXCEPT !.pc = "done"]

\* A conditional update that matched no document and is issued again.
ZeroMatched_Retry(pc) == pc

\* A findOneAndUpdate that resolves to null is not repeated: the function
\* goes on to its next statement, `if (updatedWithCoins) ... ` falling through
\* to step 2 and `if (updatedNoCoins) ...` to step 3.
ZeroMatched(pc) ==
    CASE pc = "aw_coins"   -> "aw_nocoins"
      [] pc = "aw_nocoins" -> "aw_read"

\* A caller invokes awardAchievement(userId, code); an unknown code returns
\* null before any store call.
StartAward(p, u, code) ==
    /\ req[p].pc = "idle"
    /\ req' = [req EXCEPT ![p] =
          IF code \notin AchievementCodes
          THEN [Arrive(p, "award", u) EXCEPT !.codes = <<code>>, !.pc = "done", !.ret = "null"]
          ELSE [Arrive(p, "award", u) EXCEPT !.codes = <<code>>, !.pc = "aw_coins"]]
    /\ UNCHANGED <<users, initial, history, ledger, auditLog, now>>

\* 1) award achievement + coins (only if not coin-banned), atomically.
AwardTryCoins(p) ==
    LET r == req[p]
        u == r.actor
        code == Head(r.codes)
    IN  /\ r.pc = "aw_coins"
        /\ IF AwardCoinsFilter(users[u], code)
           THEN /\ users' = [users EXCEPT ![u] = AwardCoinsUpdate(@, code)]
                /\ req' = [req EXCEPT ![p] =
                      IF Reward(code) > 0 THEN [r EXCEPT !.pc = "aw_tx"]
                      ELSE AwardReturn(r, "user", "coins")]
           ELSE /\ req' = [req EXCEPT ![p].pc = ZeroMatched(r.pc)]
                /\ UNCHANGED users
        /\ UNCHANGED <<initial, history, ledger, auditLog, now>>

\* CoinTransaction.create of the coin-granting path.
AwardCreateTx(p) ==
    LET r == req[p]
        code == Head(r.codes)
    IN  /\ r.pc = "aw_tx"
        /\ ledger' = Insert(ledger,
              Tx("achievement_reward", None, r.actor, Reward(code),
                 Desc("Achievement: ", ACHIEVEMENTS[code].title, 0, 0)))
        /\ req' = [req EXCEPT ![p] = AwardReturn(r, "user", "coins")]
        /\ UNCHANGED <<users, initial, history, auditLog, now>>

\* 2) award the achievement without coins.
AwardTryNoCoins(p) ==
    LET r == req[p]
        u == r.actor
        code == Head(r.codes)
    IN  /\ r.pc = "aw_nocoins"
        /\ IF AwardNoCoinsFilter(users[u], code)
           THEN /\ users' = [users EXCEPT ![u] = PushAchievement(@, code)]
                /\ req' = [req EXCEPT ![p] = AwardReturn(r, "user", "nocoins")]
           ELSE /\ req' = [req EXCEPT ![p].pc = ZeroMatched(r.pc)]
                /\ UNCHANGED users
        /\ UNCHANGED <<initial, history, ledger, auditLog, now>>

\* The last step answering null whatever it finds.
FindByIdResult_Null(doc) == "null"

\* The last step answering with a document whatever it finds.
FindByIdResult_Always(doc) == "user"

\* What User.findById(userId) resolves to: the document, or null.
FindByIdResult(doc) == IF doc.exists THEN "user" ELSE "null"

\* 3) return await User.findById(userId)
AwardFindById(p) ==
    LET r == req[p] IN
    /\ r.pc = "aw_read"
    /\ req' = [req EXCEPT ![p] = AwardReturn(r, FindByIdResult(users[r.actor]), "read")]
    /\ UNCHANGED <<users, initial, history, ledger, auditLog, now>>

-----------------------------------------------------------------------------
(* services/featureProgress.js *)

\* config/features: per feature, per stat, the milestones {count, ap, code}.
FEATURE_MILESTONES ==
    [chat |->
        [dmMessagesSent |->
            << [count |-> 1, ap |-> 5,  code |-> "CHAT_DM_1"],
               [count |-> 2, ap |-> 10, code |-> "CHAT_DM_2"] >>],
     imageUpload |->
        [imagesSent |->
            << [count |-> 2, ap |-> 5, code |-> "IMG_2"] >>]]

\* String(x || "").trim() on the strings the model passes.
Trim(str) ==
    CASE str = " "           -> ""
      [] str = " CHAT_DM_1 " -> "CHAT_DM_1"
      [] OTHER               -> str

\* FEATURE_MILESTONES?.[fKey]?.[sKey] || []
Milestones(fKey, sKey) ==
    IF fKey \in DOMAIN FEATURE_MILESTONES
    THEN IF sKey \in DOMAIN FEATURE_MILESTONES[fKey]
         THEN FEATURE_MILESTONES[fKey][sKey]
         ELSE << >>
    ELSE << >>

\* The input check with the ap <= 0 clause left out.
ApInputOk_AnyAp(code, ap) == Trim(code) # ""

\* awardApOnce's own input check: a non-empty code and ap > 0.
ApInputOk(code, ap) == Trim(code) # "" /\ ap > 0

\* The filter with the { $ne: cleanCode } clause left out.
ApOnceFilter_NoCodeClause(doc, code) == doc.exists

\* Filter of awardApOnce's updateOne.
ApOnceFilter(doc, code) ==
    /\ doc.exists
    /\ Count(doc.awardedAchievements, code) = 0

\* The update paying the points without recording the code.
ApOnceUpdate_NoAddToSet(doc, code, ap) ==
    [doc EXCEPT !.achievementPoints = @ + ap]

\* The update writing ap over the total ($set in place of $inc).
ApOnceUpdate_SetPoints(doc, code, ap) ==
    [doc EXCEPT !.awardedAchievements =
                    IF Count(@, code) = 0 THEN Append(@, code) ELSE @,
                !.achievementPoints = ap]

\* $addToSet: { awardedAchievements: cleanCode }, $inc: { achievementPoints: ap }
ApOnceUpdate(doc, code, ap) ==
    [doc EXCEPT !.awardedAchievements =
                    IF Count(@, code) = 0 THEN Append(@, code) ELSE @,
                !.achievementPoints = @ + ap]

\* The comparison with the threshold itself left out.
Qualifies_Strict(m, newValue) == newValue > m.count

\* if (newValue >= count)
Qualifies(m, newValue) == newValue >= m.count

\* The milestones of the loop for which awardApOnce reaches its store call,
\* in catalog order.
RECURSIVE DueMilestones(_, _)
DueMilestones(ms, newValue) ==
    IF ms = << >> THEN << >>
    ELSE LET m == Head(ms)
             rest == DueMilestones(Tail(ms), newValue)
         IN  IF Qualifies(m, newValue) /\ ApInputOk(m.code, m.ap)
             THEN <<[m EXCEPT !.code = Trim(m.code)]>> \o rest
             ELSE rest

\* recordFeatureAction (or a direct awardApOnce) returns to its caller: the
\* DM route answers once its last recordFeatureAction has returned.
RecordReturn(r) ==
    IF r.kind = "dm" THEN Respond(r, 200, None) ELSE [r EXCEPT !.pc = "done"]

\* awardApOnce returns to its caller.
ApReturn(r, awarded) ==
    LET r1 == [r EXCEPT !.ms = Tail(@), !.ret = IF awarded THEN "awarded" ELSE "not_awarded",
                        !.nAwarded = @ + (IF awarded THEN 1 ELSE 0)]
    IN  IF r1.ms # << >> THEN r1 ELSE RecordReturn(r1)

\* A direct call awardApOnce(userId, code, apAmount).
StartApOnce(p, u, code, ap) ==
    /\ req[p].pc = "idle"
    /\ req' = [req EXCEPT ![p] =
          IF ApInputOk(code, ap)
          THEN [Arrive(p, "apOnce", u) EXCEPT
                    !.ms = << [count |-> 0, ap |-> ap, code |-> Trim(code)] >>,
                    !.key = Trim(code), !.amt = ap, !.pc = "ap_update"]
          ELSE [Arrive(p, "apOnce", u) EXCEPT
                    !.key = Trim(code), !.amt = ap, !.pc = "done", !.ret = "not_awarded"]]
    /\ UNCHANGED <<users, initial, history, ledger, auditLog, now>>

\* User.updateOne of awardApOnce, for the milestone at the head of the loop.
ApUpdate(p) ==
    LET r == req[p]
        u == r.actor
        m == Head(r.ms)
    IN  /\ r.pc = "ap_update"
        /\ IF ApOnceFilter(users[u], m.code)
           THEN /\ users' = [users EXCEPT ![u] = ApOnceUpdate(@, m.code, m.ap)]
                /\ req' = [req EXCEPT ![p] = ApReturn(r, TRUE)]
           ELSE /\ req' = [req EXCEPT ![p] = ApReturn(r, FALSE)]
                /\ UNCHANGED users
        /\ UNCHANGED <<initial, history, ledger, auditLog, now>>

\* Deltas of the recordFeatureAction calls whose $inc is still to run.
RECURSIVE PendingDelta(_, _, _, _)
PendingDelta(P, u, sKey, sign) ==
    IF P = {} THEN 0
    ELSE LET p == CHOOSE x \in P : TRUE
             r == req[p]
             d == IF r.pc = "rec_inc" /\ r.actor = u
                     /\ r.statKey = sKey /\ r.delta * sign > 0
                  THEN r.delta ELSE 0
         IN  d + PendingDelta(P \ {p}, u, sKey, sign)

\* A call recordFeatureAction(userId, featureKey, statKey, delta); invalid
\* input returns before any store call.
StartRecord(p, u, featureKey, statKey, rawDelta) ==
    LET fKey == Trim(featureKey)
        sKey == Trim(statKey)
        delta == rawDelta.n
    IN  /\ req[p].pc = "idle"
        /\ IF IsFinite(rawDelta) /\ delta # 0 /\ fKey # "" /\ sKey # ""
           THEN /\ sKey \in StatKeys
                /\ users[u].stats[sKey] + PendingDelta(Procs, u, sKey, 1)
                       + Max(delta, 0) <= MaxStat
                /\ users[u].stats[sKey] + PendingDelta(Procs, u, sKey, -1)
                       + (delta - Max(delta, 0)) >= 0
                /\ req' = [req EXCEPT ![p] =
                      [Arrive(p, "record", u) EXCEPT !.feature = fKey, !.statKey = sKey,
                                                     !.raw = rawDelta,
                                                     !.delta = delta, !.pc = "rec_inc"]]
           ELSE /\ req' = [req EXCEPT ![p] =
                      [Arrive(p, "record", u) EXCEPT !.feature = fKey, !.statKey = sKey,
                                                     !.raw = rawDelta,
                                                     !.pc = "done"]]
        /\ UNCHANGED <<users, initial, history, ledger, auditLog, now>>

\* An update that writes the delta over the counter ($set in place of $inc).
IncStat_Set(doc, sKey, d) == [doc EXCEPT !.stats[sKey] = d]

\* An update that pays the delta into the balance as well.
IncStat_WithCoins(doc, sKey, d) ==
    [doc EXCEPT !.stats[sKey] = @ + d, !.coins = @ + Max(d, 0)]

\* { $inc: { ["stats." + sKey]: d } }: the store adds d to the one counter
\* named, on the document as stored at the moment of the update.
IncStat(doc, sKey, d) == [doc EXCEPT !.stats[sKey] = @ + d]

\* User.findByIdAndUpdate(userId, { $inc: { stats.<sKey>: d } }, { new: true }),
\* then the milestone loop up to its first store call.
RecordInc(p) ==
    LET r == req[p]
        u == r.actor
        newValue == IF users[u].exists THEN users[u].stats[r.statKey] + r.delta ELSE 0
        due == DueMilestones(Milestones(r.feature, r.statKey), newValue)
    IN  /\ r.pc = "rec_inc"
        /\ users' = IF users[u].exists
                    THEN [users EXCEPT ![u] = IncStat(@, r.statKey, r.delta)]
                    ELSE users
        /\ req' = [req EXCEPT ![p] =
              LET r1 == [r EXCEPT !.ms = due, !.newValue = newValue] IN
              IF due = << >> THEN RecordReturn(r1) ELSE [r1 EXCEPT !.pc = "ap_update"]]
        /\ UNCHANGED <<initial, history, ledger, auditLog, now>>

-----------------------------------------------------------------------------
(* routes/_helpers.js and routes/coins.js *)

\* The trailing window of dailyLimitsOK, in hours (24 * 60 * 60 * 1000 ms).
WindowHours == 24
\* dailyLimitsOK(req.user._id, 20, 2000)
MaxTransfers == 20
MaxCoinsPerDay == 2000
\* lvl > 10 is no valid target level
MaxLevel == 10
\* const cost = diff * 100
CoinsPerLevel == 100

FEATURE_PRICES == [chat |-> 100, groupChat |-> 200, createGroup |-> 300, imageUpload |-> 150]

\* loadUser: req.user = await User.findById(req.session.userId); a session
\* that points to no document is answered 401.
LoadUser(r) ==
    IF users[r.actor].exists
    THEN [r EXCEPT !.user = users[r.actor]]
    ELSE Respond(r, 401, "User not found")

\* User.findOne({ username }): the document, or null.
FindByUsername(name) == IF name \in AllIds THEN users[name] ELSE NoUser

\* The transfer entries of a sender created at or after `since`.
TransfersSince(userId, since) ==
    SelectSeq(ledger, LAMBDA t : /\ t.type = "transfer"
                                 /\ t.fromUserId = userId
                                 /\ t.createdAt >= since)

\* A debit that subtracts from the stored balance instead of writing the
\* balance computed on the loaded document.
Debit_FromStored(doc, snapshot, amount) ==
    [doc EXCEPT !.coins = @ - amount]

\* A save that is acknowledged and writes nothing.
Debit_Skipped(doc, snapshot, amount) == doc

\* req.user.coins -= amount; await req.user.save(): the balance computed on
\* the loaded document is written to the stored one.
Debit(doc, snapshot, amount) ==
    [doc EXCEPT !.coins = snapshot.coins - amount]

\* The credit applied whatever the recipient's ban flag.
Credit_IgnoringBan(doc, snapshot, amount) ==
    [doc EXCEPT !.coins = snapshot.coins + amount]

\* if (!target.bans?.isBannedFromCoins) target.coins += amt; await target.save():
\* an unmodified document is not written.
Credit(doc, snapshot, amount) ==
    IF ~snapshot.isBannedFromCoins
    THEN [doc EXCEPT !.coins = snapshot.coins + amount]
    ELSE doc

\* The balance test letting every amount pass.
NotEnoughCoins_Never(snapshot, amount) == FALSE

\* The insufficient-balance test, shared by /transfer and /dm/send.
NotEnoughCoins(snapshot, amount) == snapshot.coins < amount

\* The balance check of /transfer followed by the debit on the loaded document.
TransferCheckBalance(r) ==
    IF NotEnoughCoins(r.user, r.amt)
    THEN Respond(r, 400, "Not enough coins")
    ELSE [r EXCEPT !.pc = "tr_save_user"]

\* POST /transfer: loadUser, then the handler up to User.findOne.
StartTransfer(p, actor, toUsername, rawAmount) ==
    /\ req[p].pc = "idle"
    /\ req' = [req EXCEPT ![p] =
          LET r == LoadUser([Arrive(p, "transfer", actor) EXCEPT
                                 !.targetId = Trim(toUsername), !.amt = rawAmount.n,
                                 !.raw = rawAmount])
          IN  IF r.pc = "done" THEN r
              ELSE IF r.user.isBannedFromCoins
                   THEN Respond(r, 403, "You are banned from using coins")
              ELSE IF toUsername = "" \/ ~IsFinite(rawAmount) \/ rawAmount.n <= 0
                   THEN Respond(r, 400, "Invalid request")
              ELSE [r EXCEPT !.pc = "tr_find"]]
    /\ UNCHANGED <<users, initial, history, ledger, auditLog, now>>

\* User.findOne({ username }), then the checks up to the next store call.
TransferFind(p) ==
    LET r0 == req[p]
        r == [r0 EXCEPT !.target = FindByUsername(r0.targetId)]
    IN  /\ r0.pc = "tr_find"
        /\ req' = [req EXCEPT ![p] =
              IF ~r.target.exists THEN Respond(r, 404, "Target user not found")
              ELSE IF r.targetId = r.actor
                   THEN Respond(r, 400, "Cannot send coins to yourself")
              ELSE IF r.user.role # "admin"
                   THEN [r EXCEPT !.since = now - WindowHours, !.pc = "tr_count"]
              ELSE TransferCheckBalance(r)]
        /\ UNCHANGED <<users, initial, history, ledger, auditLog, now>>

\* The count test passing a sender who stands exactly at the limit.
OverCount_Strict(transfersCount) == transfersCount > MaxTransfers

\* if (transfersCount >= maxTransfers) return { ok: false, ... }
OverCount(transfersCount) == transfersCount >= MaxTransfers

\* dailyLimitsOK: CoinTransaction.countDocuments.
TransferCount(p) ==
    LET r == req[p] IN
    /\ r.pc = "tr_count"
    /\ req' = [req EXCEPT ![p] =
          IF OverCount(Len(TransfersSince(r.actor, r.since)))
          THEN Respond(r, 429, "Daily transfer count limit reached")
          ELSE [r EXCEPT !.pc = "tr_sum"]]
    /\ UNCHANGED <<users, initial, history, ledger, auditLog, now>>

\* The sum test letting every sender pass.
OverSum_Never(sum, amount) == FALSE

\* The sum test counting the attempted amount with the entries found.
OverSum_WithAttempt(sum, amount) == sum + amount >= MaxCoinsPerDay

\* if (sum >= maxCoins) return { ok: false, ... }: dailyLimitsOK is not
\* passed the amount of the attempt.
OverSum(sum, amount) == sum >= MaxCoinsPerDay

\* dailyLimitsOK: CoinTransaction.find and the sum of the amounts; then the
\* balance check.
TransferSum(p) ==
    LET r == req[p] IN
    /\ r.pc = "tr_sum"
    /\ req' = [req EXCEPT ![p] =
          IF OverSum(SumAmounts(TransfersSince(r.actor, r.since)), r.amt)
          THEN Respond(r, 429, "Daily coin sending limit reached")
          ELSE TransferCheckBalance(r)]
    /\ UNCHANGED <<users, initial, history, ledger, auditLog, now>>

\* await req.user.save() of /transfer and /dm/send.
TransferSaveUser(p) ==
    LET r == req[p] IN
    /\ r.pc = "tr_save_user"
    /\ users' = [users EXCEPT ![r.actor] = Debit(@, r.user, r.amt)]
    /\ req' = [req EXCEPT ![p] = [r EXCEPT !.user.coins = @ - r.amt, !.pc = "tr_save_target"]]
    /\ UNCHANGED <<initial, history, ledger, auditLog, now>>

\* await target.save() of /transfer and /dm/send.
TransferSaveTarget(p) ==
    LET r == req[p] IN
    /\ r.pc = "tr_save_target"
    /\ users' = [users EXCEPT ![r.targetId] = Credit(@, r.target, r.amt)]
    /\ req' = [req EXCEPT ![p] =
          [r EXCEPT !.target = Credit(r.target, r.target, r.amt), !.pc = "tr_tx"]]
    /\ UNCHANGED <<initial, history, ledger, auditLog, now>>

\* CoinTransaction.create of /transfer, and the response.
TransferCreateTx(p) ==
    LET r == req[p] IN
    /\ r.pc = "tr_tx"
    /\ r.kind = "transfer"
    /\ ledger' = Insert(ledger,
          Tx("transfer", r.actor, r.targetId, r.amt, Desc("User transfer", "", 0, 0)))
    /\ req' = [req EXCEPT ![p] = Respond(r, 200, None)]
    /\ UNCHANGED <<users, initial, history, auditLog, now>>

\* The price of a feature key; 0 (falsy) for a key FEATURE_PRICES does not hold.
Price(key) == IF key \in DOMAIN FEATURE_PRICES THEN FEATURE_PRICES[key] ELSE 0

\* The deduction written without the unlock flag.
BuyUpdate_CoinsOnly(doc, snapshot, key) ==
    [doc EXCEPT !.coins = snapshot.coins - Price(key)]

\* req.user.coins -= cost; req.user.unlocks = {...unlocks, [key]: true}; save()
BuyUpdate(doc, snapshot, key) ==
    [doc EXCEPT !.coins = snapshot.coins - Price(key),
                !.unlocks = snapshot.unlocks \cup {key}]

\* The checks of /buy-feature with the balance check left out.
BuyCheck_NoBalance(r) ==
    IF Price(r.key) = 0 THEN Respond(r, 400, "Invalid feature")
    ELSE IF r.user.isBannedFromCoins THEN Respond(r, 403, "You are banned from using coins")
    ELSE IF r.key \in r.user.unlocks THEN Respond(r, 400, "Feature already unlocked")
    ELSE [r EXCEPT !.amt = Price(r.key), !.pc = "buy_save"]

\* The checks of /buy-feature, in the order of the handler.
BuyCheck(r) ==
    IF Price(r.key) = 0 THEN Respond(r, 400, "Invalid feature")
    ELSE IF r.user.isBannedFromCoins THEN Respond(r, 403, "You are banned from using coins")
    ELSE IF r.key \in r.user.unlocks THEN Respond(r, 400, "Feature already unlocked")
    ELSE IF r.user.coins < Price(r.key) THEN Respond(r, 400, "Not enough coins")
    ELSE [r EXCEPT !.amt = Price(r.key), !.pc = "buy_save"]

\* POST /buy-feature: loadUser, then the handler up to req.user.save().
StartBuy(p, actor, featureKey) ==
    /\ req[p].pc = "idle"
    /\ req' = [req EXCEPT ![p] =
          LET r == LoadUser([Arrive(p, "buy", actor) EXCEPT !.key = featureKey])
          IN  IF r.pc = "done" THEN r ELSE BuyCheck(r)]
    /\ UNCHANGED <<users, initial, history, ledger, auditLog, now>>

\* await req.user.save() of /buy-feature: balance and unlock flag in one write.
BuySave(p) ==
    LET r == req[p] IN
    /\ r.pc = "buy_save"
    /\ users' = [users EXCEPT ![r.actor] = BuyUpdate(@, r.user, r.key)]
    /\ req' = [req EXCEPT ![p] = [r EXCEPT !.user = BuyUpdate(r.user, r.user, r.key),
                                           !.pc = "buy_tx"]]
    /\ UNCHANGED <<initial, history, ledger, auditLog, now>>

\* CoinTransaction.create of /buy-feature, and the response.
BuyCreateTx(p) ==
    LET r == req[p] IN
    /\ r.pc = "buy_tx"
    /\ ledger' = Insert(ledger,
          Tx("feature_purchase", r.actor, None, r.amt, Desc("Feature purchase: ", r.key, 0, 0)))
    /\ req' = [req EXCEPT ![p] = Respond(r, 200, None)]
    /\ UNCHANGED <<users, initial, history, auditLog, now>>

\* The adjustment without the clamp.
Clamp_None(coins, d) == coins + d

\* Math.max(0, target.coins + d)
Clamp(coins, d) == Max(0, coins + d)

\* POST /adjust: loadUser, requireAdmin, then the handler up to User.findOne.
StartAdjust(p, actor, username, rawDelta, reason) ==
    /\ req[p].pc = "idle"
    /\ req' = [req EXCEPT ![p] =
          LET r == LoadUser([Arrive(p, "adjust", actor) EXCEPT
                                 !.targetId = Trim(username), !.amt = rawDelta.n,
                                 !.raw = rawDelta, !.reason = reason])
          IN  IF r.pc = "done" THEN r
              ELSE IF r.user.role # "admin" THEN Respond(r, 403, "Admin only")
              ELSE IF username = "" \/ ~IsFinite(rawDelta)
                   THEN Respond(r, 400, "Invalid request")
              ELSE [r EXCEPT !.pc = "adj_find"]]
    /\ UNCHANGED <<users, initial, history, ledger, auditLog, now>>

\* User.findOne({ username }) of /adjust, then the new balance on the loaded document.
AdjustFind(p) ==
    LET r0 == req[p]
        r == [r0 EXCEPT !.target = FindByUsername(r0.targetId)]
    IN  /\ r0.pc = "adj_find"
        /\ req' = [req EXCEPT ![p] =
              IF ~r.target.exists THEN Respond(r, 404, "User not found")
              ELSE [r EXCEPT !.target.coins = Clamp(@, r.amt), !.pc = "adj_save"]]
        /\ UNCHANGED <<users, initial, history, ledger, auditLog, now>>

\* await target.save() of /adjust.
AdjustSave(p) ==
    LET r == req[p] IN
    /\ r.pc = "adj_save"
    /\ users' = [users EXCEPT ![r.targetId].coins = r.target.coins]
    /\ req' = [req EXCEPT ![p].pc = "adj_tx"]
    /\ UNCHANGED <<initial, history, ledger, auditLog, now>>

\* CoinTransaction.create of /adjust: the unsigned amount, the signed text.
AdjustCreateTx(p) ==
    LET r == req[p] IN
    /\ r.pc = "adj_tx"
    /\ ledger' = Insert(ledger,
          Tx("admin_adjust", r.actor, r.targetId, Abs(r.amt),
             Desc(IF r.amt >= 0 THEN "Admin adjust (+" ELSE "Admin adjust (", r.reason, r.amt, 0)))
    /\ req' = [req EXCEPT ![p].pc = "adj_audit"]
    /\ UNCHANGED <<users, initial, history, auditLog, now>>

\* An audit whose failed write reaches the handler's catch block.
AuditOutcome_Throws(r, written) ==
    IF written THEN Respond(r, 200, None) ELSE Respond(r, 500, "Server error")

\* audit() returns to the handler whether AuditLog.create succeeded or was
\* caught (try { ... } catch (e) { console.error(...) }); the handler responds.
AuditOutcome(r, written) == Respond(r, 200, None)

\* await audit(...): AuditLog.create, whose failure is caught and logged; then
\* the response.
AdjustAudit(p) ==
    LET r == req[p] IN
    /\ r.pc = "adj_audit"
    /\ \E written \in BOOLEAN :
          /\ auditLog' = IF written
                      THEN Append(auditLog, [actor |-> r.actor, action |-> "ADMIN_ADJUST_COINS",
                                             targetUsername |-> r.targetId, delta |-> r.amt])
                      ELSE auditLog
          /\ req' = [req EXCEPT ![p] = AuditOutcome(r, written)]
    /\ UNCHANGED <<users, initial, history, ledger, now>>

\* A level-up priced as one level whatever the distance.
LevelCost_OneLevel(current, lvl) == CoinsPerLevel

\* const diff = lvl - req.user.level; const cost = diff * 100
LevelCost(current, lvl) == (lvl - current) * CoinsPerLevel

\* if (req.user.role !== "admin") req.user.coins -= cost; req.user.level = lvl;
\* save(): an admin's balance is not modified and so not written.
LevelUpdate(doc, snapshot, lvl) ==
    IF snapshot.role # "admin"
    THEN [doc EXCEPT !.level = lvl, !.coins = snapshot.coins - LevelCost(snapshot.level, lvl)]
    ELSE [doc EXCEPT !.level = lvl]

\* The validation with the lvl > 10 clause left out.
InvalidLevel_NoUpperBound(rawLevel, level) ==
    ~IsFinite(rawLevel) \/ ~rawLevel.whole \/ rawLevel.n <= level

\* !Number.isFinite(lvl) || !Number.isInteger(lvl) || lvl <= req.user.level || lvl > 10
InvalidLevel(rawLevel, level) ==
    ~IsFinite(rawLevel) \/ ~rawLevel.whole \/ rawLevel.n <= level \/ rawLevel.n > MaxLevel

\* POST /level-up: loadUser, then the handler up to req.user.save().
StartLevelUp(p, actor, rawLevel) ==
    /\ req[p].pc = "idle"
    /\ req' = [req EXCEPT ![p] =
          LET r == LoadUser([Arrive(p, "levelup", actor) EXCEPT !.lvl = rawLevel.n,
                                                              !.raw = rawLevel])
          IN  IF r.pc = "done" THEN r
              ELSE IF InvalidLevel(rawLevel, r.user.level)
                   THEN Respond(r, 400, "Invalid target level")
              ELSE IF r.user.isBannedFromCoins
                   THEN Respond(r, 403, "You are banned from using coins")
              ELSE IF r.user.role # "admin"
                      /\ r.user.coins < LevelCost(r.user.level, rawLevel.n)
                   THEN Respond(r, 400, "Not enough coins")
              ELSE [r EXCEPT !.amt = LevelCost(r.user.level, rawLevel.n), !.pc = "lv_save"]]
    /\ UNCHANGED <<users, initial, history, ledger, auditLog, now>>

\* await req.user.save() of /level-up.
LevelSave(p) ==
    LET r == req[p] IN
    /\ r.pc = "lv_save"
    /\ users' = [users EXCEPT ![r.actor] = LevelUpdate(@, r.user, r.lvl)]
    /\ req' = [req EXCEPT ![p].pc = "lv_tx"]
    /\ UNCHANGED <<initial, history, ledger, auditLog, now>>

\* CoinTransaction.create of /level-up; then the handler up to the first
\* store call of awardAchievement.
LevelCreateTx(p) ==
    LET r == req[p] IN
    /\ r.pc = "lv_tx"
    /\ ledger' = Insert(ledger,
          Tx("level_up", r.actor, None, r.amt, Desc("Level up", "", r.user.level, r.lvl)))
    /\ req' = [req EXCEPT ![p] =
          [r EXCEPT !.codes = (IF r.lvl >= 2 THEN <<"LEVEL2_UNLOCKED">> ELSE << >>)
                              \o (IF r.lvl >= 3 THEN <<"LEVEL3_UNLOCKED">> ELSE << >>),
                    !.pc = "aw_coins"]]
    /\ UNCHANGED <<users, initial, history, auditLog, now>>

\* The roles /set-role accepts.
Roles == {"user", "mod", "admin"}

\* POST /set-role, /set-level, /set-bans: loadUser, requireAdmin, then the
\* handler's validation up to User.findOne.
StartAdmin(r0, username, invalid, error) ==
    LET r == LoadUser([r0 EXCEPT !.targetId = Trim(username)]) IN
    IF r.pc = "done" THEN r
    ELSE IF r.user.role # "admin" THEN Respond(r, 403, "Admin only")
    ELSE IF Trim(username) = "" THEN Respond(r, 400, "Missing username")
    ELSE IF invalid THEN Respond(r, 400, error)
    ELSE [r EXCEPT !.pc = "adm_find"]

\* POST /set-role
StartSetRole(p, actor, username, role) ==
    /\ req[p].pc = "idle"
    /\ req' = [req EXCEPT ![p] =
          StartAdmin([Arrive(p, "set_role", actor) EXCEPT !.key = Trim(role)],
                     username, Trim(role) \notin Roles, "Invalid role")]
    /\ UNCHANGED <<users, initial, history, ledger, auditLog, now>>

\* POST /set-level
StartSetLevel(p, actor, username, rawLevel) ==
    /\ req[p].pc = "idle"
    /\ req' = [req EXCEPT ![p] =
          StartAdmin([Arrive(p, "set_level", actor) EXCEPT !.lvl = rawLevel.n, !.raw = rawLevel],
                     username,
                     ~IsFinite(rawLevel) \/ ~rawLevel.whole \/ rawLevel.n < 1
                        \/ rawLevel.n > MaxLevel,
                     "Invalid level")]
    /\ UNCHANGED <<users, initial, history, ledger, auditLog, now>>

\* POST /set-bans
StartSetBans(p, actor, username, chatBan, coinsBan) ==
    /\ req[p].pc = "idle"
    /\ req' = [req EXCEPT ![p] =
          StartAdmin([Arrive(p, "set_bans", actor) EXCEPT !.chatBan = chatBan,
                                                          !.coinsBan = coinsBan],
                     username, FALSE, None)]
    /\ UNCHANGED <<users, initial, history, ledger, auditLog, now>>

\* The assignments of the three handlers on the loaded target document.
AdminAssign(r, doc) ==
    CASE r.kind = "set_role"  -> [doc EXCEPT !.role = r.key]
      [] r.kind = "set_level" -> [doc EXCEPT !.level = r.lvl]
      [] r.kind = "set_bans"  ->
            [doc EXCEPT !.isBannedFromChat = IF r.chatBan.given THEN r.chatBan.v ELSE @,
                        !.isBannedFromCoins = IF r.coinsBan.given THEN r.coinsBan.v ELSE @]

\* target.save(): the paths whose value the handler changed are written.
AdminWrite(doc, loaded, assigned) ==
    [doc EXCEPT !.role = IF assigned.role # loaded.role THEN assigned.role ELSE @,
                !.level = IF assigned.level # loaded.level THEN assigned.level ELSE @,
                !.isBannedFromChat = IF assigned.isBannedFromChat # loaded.isBannedFromChat
                                     THEN assigned.isBannedFromChat ELSE @,
                !.isBannedFromCoins = IF assigned.isBannedFromCoins # loaded.isBannedFromCoins
                                      THEN assigned.isBannedFromCoins ELSE @]

\* User.findOne({ username: cleanName }) of the three handlers.
AdminFind(p) ==
    LET r0 == req[p]
        r == [r0 EXCEPT !.target = FindByUsername(r0.targetId)]
    IN  /\ r0.pc = "adm_find"
        /\ req' = [req EXCEPT ![p] =
              IF ~r.target.exists THEN Respond(r, 404, "User not found")
              ELSE [r EXCEPT !.pc = "adm_save"]]
        /\ UNCHANGED <<users, initial, history, ledger, auditLog, now>>

\* await target.save() of the three handlers.
AdminSave(p) ==
    LET r == req[p] IN
    /\ r.pc = "adm_save"
    /\ users' = [users EXCEPT ![r.targetId] = AdminWrite(@, r.target, AdminAssign(r, r.target))]
    /\ req' = [req EXCEPT ![p].pc = "adm_tx"]
    /\ UNCHANGED <<initial, history, ledger, auditLog, now>>

\* The description of the ledger entry: old and new value.
AdminDesc(r) ==
    LET new == AdminAssign(r, r.target) IN
    CASE r.kind = "set_role"  ->
            [text |-> "Admin set role", old |-> r.target.role, new |-> new.role]
      [] r.kind = "set_level" ->
            [text |-> "Admin set level", old |-> r.target.level, new |-> new.level]
      [] r.kind = "set_bans"  ->
            [text |-> "Admin set bans", chat |-> new.isBannedFromChat,
             coins |-> new.isBannedFromCoins]

\* CoinTransaction.create of the three handlers: amount 0.
AdminCreateTx(p) ==
    LET r == req[p] IN
    /\ r.pc = "adm_tx"
    /\ ledger' = Insert(ledger,
          Tx(CASE r.kind = "set_role" -> "admin_set_role"
               [] r.kind = "set_level" -> "admin_set_level"
               [] r.kind = "set_bans" -> "admin_set_bans",
             r.actor, r.targetId, 0, AdminDesc(r)))
    /\ req' = [req EXCEPT ![p].pc = "adm_audit"]
    /\ UNCHANGED <<users, initial, history, auditLog, now>>

\* await audit(...), whose failure is caught and logged; then the response.
AdminAudit(p) ==
    LET r == req[p] IN
    /\ r.pc = "adm_audit"
    /\ \E written \in BOOLEAN :
          /\ auditLog' = IF written
                      THEN Append(auditLog, [actor |-> r.actor,
                                             action |-> CASE r.kind = "set_role" -> "ADMIN_SET_ROLE"
                                                          [] r.kind = "set_level" -> "ADMIN_SET_LEVEL"
                                                          [] r.kind = "set_bans" -> "ADMIN_SET_BANS",
                                             targetUsername |-> r.targetId, delta |-> 0])
                      ELSE auditLog
          /\ req' = [req EXCEPT ![p] = AuditOutcome(r, written)]
    /\ UNCHANGED <<users, initial, history, ledger, now>>

-----------------------------------------------------------------------------
(* routes/admin.js: POST /users/delete *)

\* POST /users/delete: loadUser, requireAdmin, then the handler up to
\* User.findOne.
StartDelete(p, actor, username) ==
    /\ req[p].pc = "idle"
    /\ req' = [req EXCEPT ![p] =
          LET r == LoadUser([Arrive(p, "delete", actor) EXCEPT !.targetId = Trim(username)])
          IN  IF r.pc = "done" THEN r
              ELSE IF r.user.role # "admin" THEN Respond(r, 403, "Admin only")
              ELSE IF Trim(username) = "" THEN Respond(r, 400, "Missing username")
              ELSE [r EXCEPT !.pc = "del_find"]]
    /\ UNCHANGED <<users, initial, history, ledger, auditLog, now>>

\* User.findOne({ username: cleanName }), then the check against deleting
\* oneself.
DeleteFind(p) ==
    LET r0 == req[p]
        r == [r0 EXCEPT !.target = FindByUsername(r0.targetId)]
    IN  /\ r0.pc = "del_find"
        /\ req' = [req EXCEPT ![p] =
              IF ~r.target.exists THEN Respond(r, 404, "User not found")
              ELSE IF r.targetId = r.actor
                   THEN Respond(r, 400, "You cannot delete your own account")
              ELSE [r EXCEPT !.pc = "del_save"]]
        /\ UNCHANGED <<users, initial, history, ledger, auditLog, now>>

\* target.isDeleted = true; target.coins = 0; both bans true; the four
\* unlock flags false.
DeleteAssign(doc) ==
    [doc EXCEPT !.isDeleted = TRUE, !.coins = 0,
                !.isBannedFromChat = TRUE, !.isBannedFromCoins = TRUE,
                !.unlocks = {}]

\* await target.save() of /users/delete: the paths whose value the handler
\* changed are written.
DeleteWrite(doc, loaded) ==
    LET assigned == DeleteAssign(loaded) IN
    [doc EXCEPT !.isDeleted = IF assigned.isDeleted # loaded.isDeleted THEN TRUE ELSE @,
                !.coins = IF assigned.coins # loaded.coins THEN 0 ELSE @,
                !.isBannedFromChat = IF ~loaded.isBannedFromChat THEN TRUE ELSE @,
                !.isBannedFromCoins = IF ~loaded.isBannedFromCoins THEN TRUE ELSE @,
                !.unlocks = @ \ loaded.unlocks]

DeleteSave(p) ==
    LET r == req[p] IN
    /\ r.pc = "del_save"
    /\ users' = [users EXCEPT ![r.targetId] = DeleteWrite(@, r.target)]
    /\ req' = [req EXCEPT ![p].pc = "del_audit"]
    /\ UNCHANGED <<initial, history, ledger, auditLog, now>>

\* await audit(...) of /users/delete, then the response; the route appends
\* no ledger entry.
DeleteAudit(p) ==
    LET r == req[p] IN
    /\ r.pc = "del_audit"
    /\ \E written \in BOOLEAN :
          /\ auditLog' = IF written
                         THEN Append(auditLog, [actor |-> r.actor, action |-> "ADMIN_DELETE_USER",
                                                targetUsername |-> r.targetId, delta |-> 0])
                         ELSE auditLog
          /\ req' = [req EXCEPT ![p] = AuditOutcome(r, written)]
    /\ UNCHANGED <<users, initial, history, ledger, now>>

-----------------------------------------------------------------------------
(* The DM routes: POST /dm/send *)

\* POST /dm/send with a text and no image: loadUser, requireChatUnlocked,
\* then the handler up to User.findOne.  coins = Number(coinsToSend) || 0.
StartDm(p, actor, toUsername, rawCoins) ==
    /\ req[p].pc = "idle"
    /\ users[actor].stats["dmMessagesSent"] < MaxStat
    /\ req' = [req EXCEPT ![p] =
          LET r == LoadUser([Arrive(p, "dm", actor) EXCEPT
                                 !.targetId = Trim(toUsername),
                                 !.amt = IF IsFinite(rawCoins) THEN rawCoins.n ELSE 0])
          IN  IF r.pc = "done" THEN r
              ELSE IF "chat" \notin r.user.unlocks
                   THEN Respond(r, 403, "Chat feature is locked. Unlock it in the Feature Shop.")
              ELSE IF r.user.isBannedFromChat
                   THEN Respond(r, 403, "You are banned from chat")
              ELSE IF toUsername = "" THEN Respond(r, 400, "Missing toUsername")
              ELSE [r EXCEPT !.pc = "dm_find"]]
    /\ UNCHANGED <<users, initial, history, ledger, auditLog, now>>

\* User.findOne({ username }) of /dm/send, then the checks up to the next
\* store call.
DmFind(p) ==
    LET r0 == req[p]
        r == [r0 EXCEPT !.target = FindByUsername(r0.targetId)]
    IN  /\ r0.pc = "dm_find"
        /\ req' = [req EXCEPT ![p] =
              IF ~r.target.exists THEN Respond(r, 404, "Target user not found")
              ELSE IF r.targetId = r.actor
                   THEN Respond(r, 400, "Cannot chat with yourself here")
              ELSE IF "chat" \notin r.target.unlocks
                   THEN Respond(r, 403, "The other user has not unlocked chat yet.")
              ELSE IF r.amt > 0
                   THEN IF r.user.isBannedFromCoins
                        THEN Respond(r, 403, "You are banned from coins")
                        ELSE IF NotEnoughCoins(r.user, r.amt)
                             THEN Respond(r, 400, "Not enough coins")
                             ELSE [r EXCEPT !.pc = "tr_save_user"]
              ELSE [r EXCEPT !.pc = "dm_msg"]]
        /\ UNCHANGED <<users, initial, history, ledger, auditLog, now>>

\* CoinTransaction.create of /dm/send.
DmCreateTx(p) ==
    LET r == req[p] IN
    /\ r.pc = "tr_tx"
    /\ r.kind = "dm"
    /\ ledger' = Insert(ledger,
          Tx("transfer", r.actor, r.targetId, r.amt, Desc("DM transfer", "", 0, 0)))
    /\ req' = [req EXCEPT ![p].pc = "dm_msg"]
    /\ UNCHANGED <<users, initial, history, auditLog, now>>

\* ChatMessage.create (the message collection is outside the engine), then
\* recordFeatureAction(req.user._id, "chat", "dmMessagesSent", 1) up to its
\* store call.
DmCreateMessage(p) ==
    LET r == req[p] IN
    /\ r.pc = "dm_msg"
    /\ req' = [req EXCEPT ![p] =
          [r EXCEPT !.feature = "chat", !.statKey = "dmMessagesSent", !.delta = 1,
                    !.pc = "rec_inc"]]
    /\ UNCHANGED <<users, initial, history, ledger, auditLog, now>>

\* The awaited store calls whose rejection reaches the handler's catch block
\* (audit catches its own).
StoreCallPcs ==
    {"tr_find", "tr_count", "tr_sum", "tr_save_user", "tr_save_target", "tr_tx",
     "buy_save", "buy_tx", "lv_save", "lv_tx", "adj_find", "adj_save", "adj_tx",
     "adm_find", "adm_save", "adm_tx", "del_find", "del_save",
     "aw_coins", "aw_tx", "aw_nocoins", "aw_read",
     "dm_find", "dm_msg", "rec_inc", "ap_update"}

\* The service functions called by code outside the routes modelled here.
ServiceKinds == {"award", "record", "apOnce"}

\* A rejected call that also undoes what the request wrote before it, as one
\* transaction over the request's writes would.
StoreFails_RollsBack(p) ==
    LET r == req[p] IN
    /\ r.pc \in StoreCallPcs
    /\ req' = [req EXCEPT ![p] =
          IF r.kind \in ServiceKinds
          THEN [r EXCEPT !.pc = "done", !.ret = "throws", !.failedAt = r.pc]
          ELSE [Respond(r, 500, "Server error") EXCEPT !.failedAt = r.pc]]
    /\ users' = IF history THEN r.pre ELSE users
    /\ UNCHANGED <<initial, history, ledger, auditLog, now>>

\* The store rejects the awaited call: nothing is written, and the route's
\* catch block answers 500 "Server error"; a service function called on its
\* own throws to its caller.
StoreFails(p) ==
    LET r == req[p] IN
    /\ r.pc \in StoreCallPcs
    /\ req' = [req EXCEPT ![p] =
          IF r.kind \in ServiceKinds
          THEN [r EXCEPT !.pc = "done", !.ret = "throws", !.failedAt = r.pc]
          ELSE [Respond(r, 500, "Server error") EXCEPT !.failedAt = r.pc]]
    /\ UNCHANGED <<users, initial, history, ledger, auditLog, now>>

\* The response has been sent; the slot takes the next request.
Retire(p) ==
    /\ req[p].pc = "done"
    /\ req' = [req EXCEPT ![p] = IdleReq]
    /\ UNCHANGED <<users, initial, history, ledger, auditLog, now>>

-----------------------------------------------------------------------------
(* Concurrent awardAchievement calls *)

AwardCallCodes == {"FIRST_LOGIN", "FIRST_BUG_REPORT", "NO_SUCH_CODE"}

InitAward ==
    /\ \E banned \in BOOLEAN :
          users = [i \in AllIds |->
              CASE i = "alice" -> [NewUser("user", 1, 0) EXCEPT !.isBannedFromCoins = banned]
                [] i = "bob"   -> NewUser("user", 1, 0)
                [] i = "root"  -> NewUser("admin", 10, 999999)
                [] OTHER       -> NoUser]
    /\ initial = users
    /\ history = TRUE
    /\ ledger = << >>
    /\ auditLog = << >>
    /\ now = 0
    /\ req = [p \in Procs |-> IdleReq]

NextAward ==
    \E p \in Procs :
        \/ \E u \in {"alice", "ghost"}, code \in AwardCallCodes : StartAward(p, u, code)
        \/ AwardTryCoins(p)
        \/ AwardCreateTx(p)
        \/ AwardTryNoCoins(p)
        \/ AwardFindById(p)

SpecAward == InitAward /\ [][NextAward]_vars


\* The codes an account holds, and the sum of the catalog rewards of a set of codes.
\* The achievement_reward entries of the ledger for an account and a code.
RewardEntries(u, code) ==
    SelectSeq(ledger, LAMBDA t : /\ t.type = "achievement_reward"
                                 /\ t.toUserId = u
                                 /\ t.description.arg = ACHIEVEMENTS[code].title)

HeldCodes(u) == {users[u].achievements[i].code : i \in 1..Len(users[u].achievements)}

RECURSIVE SumRewards(_)
SumRewards(S) ==
    IF S = {} THEN 0
    ELSE LET c == CHOOSE x \in S : TRUE IN Reward(c) + SumRewards(S \ {c})

CoinDelta(u) == users[u].coins - initial[u].coins

\* An awardAchievement call for a catalog code on an existing account has returned.
AwardDone(p) ==
    /\ req[p].kind = "award"
    /\ req[p].pc = "done"
    /\ req[p].codes = << >>
    /\ users[req[p].actor].exists

\* C1: at-most-once grant.  Under every interleaving of awardAchievement
\* calls, no code is held twice by an account; once a call for a catalog code
\* on an existing account has returned the account holds the code exactly
\* once; and the coins the calls added to an account are the rewards of some
\* of the codes it holds, each counted once (0 or the reward for one code,
\* never a multiple).
C1_AtMostOnceGrant ==
    \A u \in UserIds :
        /\ \A c \in AchievementCodes : Count(Codes(users[u].achievements), c) <= 1
        /\ \A p \in Procs :
              (AwardDone(p) /\ req[p].actor = u) =>
                  Count(Codes(users[u].achievements), req[p].awarded) = 1
        /\ CoinDelta(u) \in {SumRewards(S) : S \in SUBSET HeldCodes(u)}

\* Two calls for the same code both arrived before the code was granted and
\* both returned: one took the coin path, the other read the current state.
C1_Witness ==
    \E p, q \in Procs :
        /\ p # q
        /\ AwardDone(p) /\ AwardDone(q)
        /\ req[p].actor = "alice" /\ req[q].actor = "alice"
        /\ req[p].awarded = "FIRST_LOGIN" /\ req[q].awarded = "FIRST_LOGIN"
        /\ req[p].pre["alice"].achievements = << >>
        /\ req[q].pre["alice"].achievements = << >>
        /\ req[p].path = "coins" /\ req[q].path = "read"
        /\ CoinDelta("alice") = Reward("FIRST_LOGIN")

\* C5: ban suppression on awards.  A call for an account that is coin-banned
\* and does not hold the code adds the code, leaves the balance as it was
\* and appends no achievement_reward entry for the account.
C5_BanSuppression ==
    \A p \in Procs :
        LET u == req[p].actor
            pre == req[p].pre[u]
        IN  (/\ AwardDone(p)
             /\ pre.isBannedFromCoins
             /\ ~HasAchievement(pre, req[p].awarded))
            => /\ HasAchievement(users[u], req[p].awarded)
               /\ users[u].coins = pre.coins
               /\ \A i \in (req[p].preLedger + 1)..Len(ledger) :
                     ~(ledger[i].type = "achievement_reward" /\ ledger[i].toUserId = u)

C5_Witness ==
    \E p \in Procs :
        /\ AwardDone(p)
        /\ req[p].pre[req[p].actor].isBannedFromCoins
        /\ req[p].path = "nocoins"
        /\ HasAchievement(users[req[p].actor], req[p].awarded)


-----------------------------------------------------------------------------
(* awardAchievement calls, one after the other *)

NextAwardSeq ==
    \E p \in {1} :
        \/ \E u \in {"alice", "ghost"}, code \in AchievementCodes \cup {"NO_SUCH_CODE"} :
              StartAward(p, u, code)
        \/ AwardTryCoins(p) \/ AwardCreateTx(p) \/ AwardTryNoCoins(p) \/ AwardFindById(p)
        \/ Retire(p)

SpecAwardSeq == InitAward /\ [][NextAwardSeq]_vars

\* An awardAchievement call has returned to its caller.
AwardReturned(p) == req[p].kind = "award" /\ req[p].pc = "done"

\* The code the call was made for.
CalledCode(p) == IF req[p].codes # << >> THEN Head(req[p].codes) ELSE req[p].awarded

\* C12: an already-held grant is a no-op success.  An awardAchievement call
\* for an account that holds the code when the call is made returns the
\* account (not null) after the findById step, and the accounts (achievement
\* lists and balances) and the ledger are as they were before the call; so
\* a second call in sequence leaves the state of the first.
C12_AlreadyHeldNoOp ==
    \A p \in {1} :
        LET r == req[p] IN
        (/\ AwardReturned(p)
         /\ CalledCode(p) \in AchievementCodes
         /\ HasAchievement(r.pre[r.actor], CalledCode(p)))
        => /\ r.ret = "user"
           /\ r.path = "read"
           /\ users = r.pre
           /\ ledger = SubSeq(ledger, 1, r.preLedger)

\* A second call for FIRST_LOGIN on an account that was paid for it has returned.
C12_Witness ==
    \E p \in {1} :
        /\ AwardReturned(p)
        /\ CalledCode(p) = "FIRST_LOGIN"
        /\ HasAchievement(req[p].pre["alice"], "FIRST_LOGIN")
        /\ req[p].actor = "alice"
        /\ Len(RewardEntries("alice", "FIRST_LOGIN")) = 1
        /\ req[p].ret = "user"

\* C14: awardAchievement on a missing target has no effect.  A call whose
\* account id resolves to no account, or whose code is not in the catalog,
\* returns null; no account has been created or changed and the ledger is
\* as it was; a call with an unknown code returns before any store call.
C14_MissingTargetNoEffect ==
    \A p \in {1} :
        LET r == req[p] IN
        (AwardReturned(p) /\ (~r.pre[r.actor].exists \/ CalledCode(p) \notin AchievementCodes))
        => /\ r.ret = "null"
           /\ users = r.pre
           /\ ~users[r.actor].exists \/ CalledCode(p) \notin AchievementCodes
           /\ ledger = SubSeq(ledger, 1, r.preLedger)
           /\ CalledCode(p) \notin AchievementCodes => r.path = None
           /\ CalledCode(p) \in AchievementCodes => r.path = "read"

\* A call for a catalog code on an id with no account has gone through the
\* three store calls and returned null.
C14_Witness ==
    \E p \in {1} :
        /\ AwardReturned(p)
        /\ req[p].actor = "ghost"
        /\ CalledCode(p) = "LEVEL2_UNLOCKED"
        /\ req[p].path = "read"
        /\ req[p].ret = "null"

\* A call with a code outside the catalog on an existing account has returned.
C14_UnknownCode ==
    \E p \in {1} :
        /\ AwardReturned(p)
        /\ req[p].actor = "alice"
        /\ CalledCode(p) = "NO_SUCH_CODE"
        /\ req[p].ret = "null"

\* The calls for (u, code) that have returned from the coin-granting path.
PaidCalls(u, code) ==
    {p \in Procs : /\ AwardReturned(p) /\ req[p].actor = u
                    /\ CalledCode(p) = code /\ req[p].path = "coins"}

\* The calls for (u, code) whose first conditional update matched: those
\* that returned from that path and those about to insert their entry.
CreditingCalls(u, code) ==
    PaidCalls(u, code) \cup
    {p \in Procs : /\ req[p].kind = "award" /\ req[p].pc = "aw_tx"
                    /\ req[p].actor = u /\ Head(req[p].codes) = code}

RECURSIVE SumCredits(_, _)
SumCredits(u, S) ==
    IF S = {} THEN 0
    ELSE LET c == CHOOSE x \in S : TRUE
         IN  Reward(c) * Cardinality(CreditingCalls(u, c)) + SumCredits(u, S \ {c})

\* C13: achievement ledger entries match coin credits.  Under every
\* interleaving of awardAchievement calls, for every account and code: the
\* achievement_reward entries are as many as the calls that returned from the
\* path of the first conditional update, each carries the reward of the code,
\* and such a call exists only for an account that is not coin-banned; at
\* most one call credits the code; the balance has grown by the rewards of
\* the crediting calls and by nothing else; and nothing but these entries is
\* in the ledger.  So once all calls have returned, entries and credits of an
\* (account, code) are equal and at most 1.
C13_LedgerMatchesCredits ==
    /\ \A u \in AllIds, c \in AchievementCodes :
          /\ Len(RewardEntries(u, c)) = Cardinality(PaidCalls(u, c))
          /\ Cardinality(CreditingCalls(u, c)) <= 1
          /\ \A i \in 1..Len(RewardEntries(u, c)) : RewardEntries(u, c)[i].amount = Reward(c)
          /\ CreditingCalls(u, c) # {} =>
                /\ users[u].exists /\ ~users[u].isBannedFromCoins
                /\ HasAchievement(users[u], c)
    /\ \A u \in AllIds : users[u].coins - initial[u].coins = SumCredits(u, AchievementCodes)
    /\ \A i \in 1..Len(ledger) :
          /\ ledger[i].type = "achievement_reward"
          /\ \E c \in AchievementCodes :
                /\ ledger[i].description.arg = ACHIEVEMENTS[c].title
                /\ ledger[i].amount = Reward(c)
                /\ PaidCalls(ledger[i].toUserId, c) # {}

\* Two calls for FIRST_BUG_REPORT on alice have both returned, one of them
\* from the coin-granting path, and the ledger holds its one entry.
C13_Witness ==
    \E p, q \in Procs :
        /\ p # q
        /\ AwardReturned(p) /\ AwardReturned(q)
        /\ req[p].actor = "alice" /\ req[q].actor = "alice"
        /\ CalledCode(p) = "FIRST_BUG_REPORT" /\ CalledCode(q) = "FIRST_BUG_REPORT"
        /\ req[p].path = "coins" /\ req[q].path # "coins"
        /\ Len(RewardEntries("alice", "FIRST_BUG_REPORT")) = 1
        /\ users["alice"].coins = initial["alice"].coins + 25

-----------------------------------------------------------------------------
(* recordFeatureAction calls, one after the other *)

RecordDeltas == {Num(1), Num(2), Num(-1), Num(0), NaN}

InitRecord ==
    /\ users = [i \in AllIds |->
          CASE i \in {"alice", "bob"} -> NewUser("user", 1, 0)
            [] i = "root"             -> NewUser("admin", 10, 999999)
            [] OTHER                  -> NoUser]
    /\ initial = users
    /\ history = TRUE
    /\ ledger = << >>
    /\ auditLog = << >>
    /\ now = 0
    /\ req = [p \in Procs |-> IdleReq]

NextRecord ==
    \E p \in {1} :
        \/ \E u \in {"alice", "ghost"}, d \in RecordDeltas :
              \/ StartRecord(p, u, "chat", "dmMessagesSent", d)
              \/ StartRecord(p, u, "imageUpload", "imagesSent", d)
              \/ StartRecord(p, u, "chat", " ", d)
        \/ RecordInc(p)
        \/ ApUpdate(p)
        \/ Retire(p)

SpecRecord == InitRecord /\ [][NextRecord]_vars

\* The catalog's ap for a milestone code.
ApOfCode(code) ==
    LET ms == FEATURE_MILESTONES.chat.dmMessagesSent \o FEATURE_MILESTONES.imageUpload.imagesSent
        i == CHOOSE j \in 1..Len(ms) : ms[j].code = code
    IN  ms[i].ap

RECURSIVE SumAp(_)
SumAp(S) ==
    IF S = {} THEN 0
    ELSE LET c == CHOOSE x \in S : TRUE IN ApOfCode(c) + SumAp(S \ {c})

AwardedSet(u) == {users[u].awardedAchievements[i] : i \in 1..Len(users[u].awardedAchievements)}

RecordDone(p) ==
    /\ req[p].kind = "record"
    /\ req[p].pc = "done"
    /\ req[p].delta # 0
    /\ users[req[p].actor].exists

\* C3: milestone idempotence.  Whatever the sequence of recordFeatureAction
\* calls (the counter going above a threshold, below it and above it again),
\* the achievement-point total is the sum of the ap of the milestones
\* recorded, each recorded once; and a call that left the counter at or above
\* a threshold has the milestone recorded when it returns.
C3_MilestoneIdempotence ==
    \A u \in UserIds :
        /\ \A c \in AwardedSet(u) : Count(users[u].awardedAchievements, c) = 1
        /\ users[u].achievementPoints = SumAp(AwardedSet(u))
        /\ \A p \in Procs :
              (RecordDone(p) /\ req[p].actor = u) =>
                  \A i \in 1..Len(Milestones(req[p].feature, req[p].statKey)) :
                      LET m == Milestones(req[p].feature, req[p].statKey)[i] IN
                      req[p].newValue >= m.count => m.code \in AwardedSet(u)

\* The counter reached the threshold again by a call that started below it
\* with the milestone already recorded.
C3_Witness ==
    \E p \in Procs :
        /\ RecordDone(p)
        /\ req[p].actor = "alice"
        /\ req[p].pre["alice"].stats["dmMessagesSent"] < 2
        /\ Count(req[p].pre["alice"].awardedAchievements, "CHAT_DM_2") = 1
        /\ req[p].newValue >= 2
        /\ users["alice"].achievementPoints = 15

\* The codes recorded on the account when request p arrived.
AwardedBefore(p) ==
    LET a == req[p].pre[req[p].actor].awardedAchievements
    IN  {a[i] : i \in 1..Len(a)}

\* The catalog milestones of request p's (feature, stat).
CallMilestones(p) ==
    LET ms == Milestones(req[p].feature, req[p].statKey)
    IN  {ms[i] : i \in 1..Len(ms)}

\* The codes of the milestones with threshold <= the new value and ap > 0
\* that were not recorded when request p arrived.
NewlyDue(p) ==
    {m.code : m \in {x \in CallMilestones(p) :
                        /\ x.count <= req[p].newValue /\ x.ap > 0
                        /\ x.code \notin AwardedBefore(p)}}

\* C19: all qualifying milestones are awarded.  When a recordFeatureAction
\* call on an existing account has returned with new counter value v, every
\* catalog milestone of its (feature, stat) with threshold <= v and ap > 0 is
\* recorded on the account; the call itself awarded exactly those of them
\* that were not recorded before (two, when one increment passes two
\* thresholds), paying their ap; and a milestone with threshold > v is
\* recorded after the call only if it was recorded before it.
C19_AllQualifyingAwarded ==
    \A p \in Procs :
        RecordDone(p) =>
            LET u == req[p].actor
                v == req[p].newValue
            IN  /\ v = req[p].pre[u].stats[req[p].statKey] + req[p].delta
                /\ v = users[u].stats[req[p].statKey]
                /\ \A m \in CallMilestones(p) :
                      /\ (m.count <= v /\ m.ap > 0) => m.code \in AwardedSet(u)
                      /\ m.count > v =>
                            (m.code \in AwardedSet(u) <=> m.code \in AwardedBefore(p))
                /\ AwardedSet(u) = AwardedBefore(p) \cup NewlyDue(p)
                /\ req[p].nAwarded = Cardinality(NewlyDue(p))
                /\ users[u].achievementPoints =
                       req[p].pre[u].achievementPoints + SumAp(NewlyDue(p))

\* One call took the counter from 0 to 2, past both thresholds of
\* chat.dmMessagesSent, and awarded both milestones.
C19_Witness ==
    \E p \in Procs :
        /\ RecordDone(p)
        /\ req[p].actor = "alice"
        /\ req[p].feature = "chat" /\ req[p].statKey = "dmMessagesSent"
        /\ req[p].pre["alice"].stats["dmMessagesSent"] = 0
        /\ req[p].pre["alice"].awardedAchievements = << >>
        /\ req[p].delta = 2 /\ req[p].newValue = 2
        /\ req[p].nAwarded = 2
        /\ AwardedSet("alice") = {"CHAT_DM_1", "CHAT_DM_2"}
        /\ users["alice"].achievementPoints = 15

\* A call left the counter at 1: the first milestone is recorded, the
\* second is not.
C19_BelowSecond ==
    \E p \in Procs :
        /\ RecordDone(p)
        /\ req[p].newValue = 1 /\ req[p].statKey = "dmMessagesSent"
        /\ AwardedSet(req[p].actor) = {"CHAT_DM_1"}

-----------------------------------------------------------------------------
(* Concurrent awardApOnce calls *)

\* The (code, ap) pairs the calls pass: catalog milestones, one with blanks
\* around the code, an empty code and a zero ap.
ApCalls ==
    { <<"CHAT_DM_1", 5>>, <<" CHAT_DM_1 ", 5>>, <<"CHAT_DM_2", 10>>,
      <<" ", 5>>, <<"CHAT_DM_2", 0>> }

NextApOnce ==
    \E p \in Procs :
        \/ \E u \in {"alice", "ghost"}, c \in ApCalls : StartApOnce(p, u, c[1], c[2])
        \/ ApUpdate(p)

SpecApOnce == InitRecord /\ [][NextApOnce]_vars

\* The awardApOnce calls for (u, code) that have returned awarded = true.
ApWinners(u, code) ==
    {p \in Procs : /\ req[p].kind = "apOnce" /\ req[p].pc = "done"
                   /\ req[p].actor = u /\ req[p].key = code
                   /\ req[p].ret = "awarded"}

\* The awardApOnce calls for (u, code) with ap > 0 that have returned.
ApReturned(u, code) ==
    {p \in Procs : /\ req[p].kind = "apOnce" /\ req[p].pc = "done"
                   /\ req[p].actor = u /\ req[p].key = code /\ req[p].amt > 0}

\* C4: awardApOnce is idempotent under replay and concurrency.  For every
\* account and code, in every interleaving of the calls: the code is recorded
\* at most once; the total has grown by the code's ap once if the code is
\* recorded and not at all otherwise; exactly one of the calls that have
\* returned reported awarded = true as soon as any call with ap > 0 has
\* returned, and none before.
C4_AwardApOnceIdempotent ==
    \A u \in UserIds :
        /\ users[u].achievementPoints - initial[u].achievementPoints = SumAp(AwardedSet(u))
        /\ \A c \in {"CHAT_DM_1", "CHAT_DM_2"} :
              /\ Count(users[u].awardedAchievements, c) <= 1
              /\ Cardinality(ApWinners(u, c)) = Count(users[u].awardedAchievements, c)
              /\ ApReturned(u, c) # {} => Cardinality(ApWinners(u, c)) = 1

\* Two calls for one code, both started before either update, have returned:
\* one awarded, one not, and the total grew by ap once.
C4_Witness ==
    \E p, q \in Procs :
        /\ p # q
        /\ p \in ApWinners("alice", "CHAT_DM_1")
        /\ q \in ApReturned("alice", "CHAT_DM_1") /\ req[q].ret = "not_awarded"
        /\ req[p].pre["alice"].awardedAchievements = << >>
        /\ req[q].pre["alice"].awardedAchievements = << >>
        /\ users["alice"].achievementPoints = 5

-----------------------------------------------------------------------------
(* recordFeatureAction and awardApOnce calls with valid and invalid input,
   one after the other *)

\* The feature and stat keys the calls pass: a catalog key and a blank one.
InputFeatures == {"chat", " "}
InputStats == {"dmMessagesSent", " "}

\* The (code, ap) pairs of the direct awardApOnce calls, with a negative ap
\* among them.
InputApCalls == ApCalls \cup { <<"CHAT_DM_1", -5>> }

NextInputs ==
    \E p \in {1} :
        \/ \E u \in {"alice", "ghost"}, f \in InputFeatures, k \in InputStats,
              d \in RecordDeltas :
              StartRecord(p, u, f, k, d)
        \/ \E u \in {"alice", "ghost"}, c \in InputApCalls : StartApOnce(p, u, c[1], c[2])
        \/ RecordInc(p)
        \/ ApUpdate(p)
        \/ Retire(p)

SpecInputs == InitRecord /\ [][NextInputs]_vars

\* Request p is a recordFeatureAction call with a delta that is zero or not
\* finite, or a feature or stat key that is empty after trimming.
InvalidRecord(p) ==
    /\ req[p].kind = "record"
    /\ \/ ~IsFinite(req[p].raw)
       \/ req[p].raw.n = 0
       \/ req[p].feature = ""
       \/ req[p].statKey = ""

\* Request p is an awardApOnce call with a code that is empty after
\* trimming, or ap <= 0.
InvalidApOnce(p) ==
    /\ req[p].kind = "apOnce"
    /\ (req[p].key = "" \/ req[p].amt <= 0)

\* C20: invalid input is a no-op.  A recordFeatureAction call with delta
\* zero or not finite, or with featureKey or statKey empty after trimming,
\* returns without a store call: no counter, milestone set or AP total has
\* changed and nothing was awarded.  An awardApOnce call with a code empty
\* after trimming, or ap <= 0, likewise changes nothing and returns
\* awarded = false.
C20_InvalidInputNoOp ==
    \A p \in Procs :
        (req[p].pc # "idle" /\ (InvalidRecord(p) \/ InvalidApOnce(p))) =>
            /\ req[p].pc = "done"
            /\ users = req[p].pre
            /\ req[p].nAwarded = 0
            /\ req[p].kind = "apOnce" => req[p].ret = "not_awarded"

\* A recordFeatureAction call with a delta that is not a number has
\* returned on an account whose counter is 1, one below the next threshold.
C20_Witness ==
    \E p \in Procs :
        /\ InvalidRecord(p) /\ req[p].pc = "done"
        /\ req[p].actor = "alice"
        /\ req[p].feature = "chat" /\ req[p].statKey = "dmMessagesSent"
        /\ ~IsFinite(req[p].raw)
        /\ users["alice"].stats["dmMessagesSent"] = 1
        /\ AwardedSet("alice") = {"CHAT_DM_1"}

\* An awardApOnce call with ap = 0 for a code the account does not hold has
\* returned awarded = false.
C20_ZeroAp ==
    \E p \in Procs :
        /\ InvalidApOnce(p) /\ req[p].pc = "done"
        /\ req[p].actor = "alice" /\ req[p].key = "CHAT_DM_2" /\ req[p].amt = 0
        /\ "CHAT_DM_2" \notin AwardedSet("alice")
        /\ req[p].ret = "not_awarded"

\* An awardApOnce call with a blank code and a positive ap has returned
\* awarded = false.
C20_BlankCode ==
    \E p \in Procs :
        /\ InvalidApOnce(p) /\ req[p].pc = "done"
        /\ req[p].key = "" /\ req[p].amt = 5

\* A recordFeatureAction call with a blank feature key and a delta of 1 has
\* returned.
C20_BlankFeature ==
    \E p \in Procs :
        /\ InvalidRecord(p) /\ req[p].pc = "done"
        /\ req[p].feature = "" /\ req[p].statKey = "dmMessagesSent" /\ req[p].raw = Num(1)

-----------------------------------------------------------------------------
(* The coin routes, one request after the other *)

InitSeq ==
    /\ \E aliceRole \in {"user", "admin"}, bobBanned \in BOOLEAN :
          users = [i \in AllIds |->
              CASE i = "alice" -> NewUser(aliceRole, 1, 0)
                [] i = "bob"   -> [NewUser("user", 1, 0) EXCEPT !.isBannedFromCoins = bobBanned]
                [] i = "root"  -> NewUser("admin", 10, 999999)
                [] OTHER       -> NoUser]
    /\ initial = users
    /\ history = TRUE
    /\ ledger = << >>
    /\ auditLog = << >>
    /\ now = 0
    /\ req = [p \in Procs |-> IdleReq]

SeqAdjustDeltas == {Num(500), Num(50), Num(0), Num(-100), NaN}
SeqAmounts == {Num(40), Num(0), NaN}
SeqLevels == {Num(1), Num(2), Num(3), Num(10), Num(11), Half(2), NaN}
SeqFeatures == {"chat", "imageUpload", "no_such_feature"}

NextSeq ==
    \E p \in {1} :
        \/ /\ Len(ledger) < MaxLedger
           /\ \/ \E a \in {"root", "bob"}, u \in {"alice", "ghost"}, d \in SeqAdjustDeltas :
                    StartAdjust(p, a, u, d, "")
              \/ \E to \in {"bob", "alice", "ghost"}, amt \in SeqAmounts :
                    StartTransfer(p, "alice", to, amt)
              \/ \E key \in SeqFeatures : StartBuy(p, "alice", key)
              \/ \E lvl \in SeqLevels : StartLevelUp(p, "alice", lvl)
        \/ AdjustFind(p) \/ AdjustSave(p) \/ AdjustCreateTx(p) \/ AdjustAudit(p)
        \/ TransferFind(p) \/ TransferCount(p) \/ TransferSum(p)
        \/ TransferSaveUser(p) \/ TransferSaveTarget(p) \/ TransferCreateTx(p)
        \/ BuySave(p) \/ BuyCreateTx(p)
        \/ LevelSave(p) \/ LevelCreateTx(p)
        \/ AwardTryCoins(p) \/ AwardCreateTx(p) \/ AwardTryNoCoins(p) \/ AwardFindById(p)
        \/ Retire(p)

SpecSeq == InitSeq /\ [][NextSeq]_vars

\* A route request of the given kind has been answered.
Answered(p, kind) == req[p].kind = kind /\ req[p].pc = "done"

\* Nothing of the store changed since request p arrived.
Untouched(p) == users = req[p].pre /\ Len(ledger) = req[p].preLedger

\* C6: transfer to a coin-banned recipient.  A /transfer request that passed
\* every check and whose recipient is coin-banned has debited the sender by
\* the full amount, left the recipient's balance as it was, and appended one
\* transfer entry carrying the full amount.
C6_TransferToBanned ==
    \A p \in {1} :
        LET r == req[p] IN
        (Answered(p, "transfer") /\ r.status = 200 /\ r.pre[r.targetId].isBannedFromCoins)
        => /\ users[r.actor].coins = r.pre[r.actor].coins - r.amt
           /\ users[r.targetId].coins = r.pre[r.targetId].coins
           /\ Len(ledger) = r.preLedger + 1
           /\ ledger[Len(ledger)].type = "transfer"
           /\ ledger[Len(ledger)].fromUserId = r.actor
           /\ ledger[Len(ledger)].toUserId = r.targetId
           /\ ledger[Len(ledger)].amount = r.amt

C6_Witness ==
    /\ Answered(1, "transfer")
    /\ req[1].status = 200
    /\ req[1].targetId = "bob"
    /\ req[1].pre["bob"].isBannedFromCoins
    /\ req[1].amt = 40
    /\ users["alice"].coins = req[1].pre["alice"].coins - 40

\* C8: adminAdjust clamps.  An answered /adjust on an existing target with a
\* finite delta d left the target's balance at max(0, b + d), b being the
\* balance before; with d below -b that is exactly 0.
C8_AdjustClamps ==
    \A p \in {1} :
        LET r == req[p]
            b == r.pre[r.targetId].coins
        IN  (Answered(p, "adjust") /\ r.status = 200)
            => /\ users[r.targetId].coins = (IF b + r.amt >= 0 THEN b + r.amt ELSE 0)
               /\ (r.amt < -b => users[r.targetId].coins = 0)

C8_Witness ==
    /\ Answered(1, "adjust")
    /\ req[1].status = 200
    /\ req[1].pre["alice"].coins = 50
    /\ req[1].amt = -100
    /\ users["alice"].coins = 0

\* C9: a rejected purchase changes nothing.  A /buy-feature request for an
\* unknown key, for a feature already unlocked, or with a balance below the
\* price is rejected; and every rejected request left the balance and the
\* unlock flags as they were and appended no ledger entry.
C9_BuyRejected ==
    \A p \in {1} :
        LET r == req[p]
            before == r.pre[r.actor]
        IN  Answered(p, "buy") =>
            /\ (\/ r.key \notin DOMAIN FEATURE_PRICES
                \/ r.key \in before.unlocks
                \/ before.coins < Price(r.key)) => r.status = 400
            /\ r.status # 200 =>
                  /\ users[r.actor].coins = before.coins
                  /\ users[r.actor].unlocks = before.unlocks
                  /\ Untouched(p)

\* purchaseFeature(A, "chat") at price 100 with balance 50.
C9_Witness ==
    /\ Answered(1, "buy")
    /\ req[1].key = "chat"
    /\ req[1].pre["alice"].coins = 50
    /\ req[1].status = 400
    /\ req[1].error = "Not enough coins"
    /\ users["alice"].coins = 50
    /\ "chat" \notin users["alice"].unlocks

\* The codes the account of request p holds now and did not hold on arrival.
NewCodes(p) ==
    {c \in HeldCodes(req[p].actor) : ~HasAchievement(req[p].pre[req[p].actor], c)}

\* C10: levelUp cost and result.  For an account that is not coin-banned, at
\* level c with balance b, a /level-up to an integer t with c < t <= 10:
\* a non-admin with b >= (t - c) * 100 ends at level t with (t - c) * 100
\* deducted (the level_up entry carries that cost) and the rewards of the
\* achievements the request granted added; a non-admin with less is rejected
\* with nothing changed; an admin ends at level t with nothing deducted.
\* From b = 500, c = 1, t = 3 the balance ends at 425 with two new entries.
C10_LevelUp ==
    \A p \in {1} :
        LET r == req[p]
            before == r.pre[r.actor]
            t == r.lvl
            cost == (t - before.level) * 100
            ok == /\ Answered(p, "levelup") /\ before.exists /\ ~before.isBannedFromCoins
                  /\ r.raw.finite /\ r.raw.whole
                  /\ before.level < t /\ t <= 10
        IN  /\ (ok /\ before.role # "admin" /\ before.coins >= cost) =>
                  /\ r.status = 200
                  /\ users[r.actor].level = t
                  /\ users[r.actor].coins = before.coins - cost + SumRewards(NewCodes(p))
                  /\ \E i \in (r.preLedger + 1)..Len(ledger) :
                        ledger[i].type = "level_up" /\ ledger[i].amount = cost
            /\ (ok /\ before.role # "admin" /\ before.coins < cost) =>
                  r.status = 400 /\ Untouched(p)
            /\ (ok /\ before.role = "admin") =>
                  /\ r.status = 200
                  /\ users[r.actor].level = t
                  /\ users[r.actor].coins = before.coins + SumRewards(NewCodes(p))
            /\ (ok /\ before.role # "admin" /\ before.coins = 500
                   /\ before.level = 1 /\ t = 3) =>
                  /\ users[r.actor].coins = 425
                  /\ users[r.actor].level = 3
                  /\ Len(users[r.actor].achievements) = Len(before.achievements) + 2

C10_Witness ==
    /\ Answered(1, "levelup")
    /\ req[1].status = 200
    /\ req[1].pre["alice"].coins = 500
    /\ req[1].pre["alice"].level = 1
    /\ req[1].pre["alice"].role = "user"
    /\ req[1].lvl = 3
    /\ users["alice"].coins = 425
    /\ users["alice"].level = 3
    /\ HeldCodes("alice") = {"LEVEL2_UNLOCKED", "LEVEL3_UNLOCKED"}

\* C25: adminAdjust always logs.  An /adjust request of an admin on an
\* existing target with a finite delta d is answered 200 and has appended
\* exactly one entry: type admin_adjust, from the admin to the target,
\* amount |d| (also when the clamp at 0 made the balance change smaller),
\* description carrying the signed d.  An /adjust on an unknown target is
\* answered 404, one with a delta that is not finite 400, and neither has
\* changed an account or the ledger.
C25_AdjustAlwaysLogs ==
    \A p \in Procs :
        LET r == req[p] IN
        (Answered(p, "adjust") /\ r.pre[r.actor].role = "admin") =>
            IF ~IsFinite(r.raw)
            THEN r.status = 400 /\ r.error = "Invalid request" /\ Untouched(p)
            ELSE IF ~r.pre[r.targetId].exists
            THEN r.status = 404 /\ r.error = "User not found" /\ Untouched(p)
            ELSE LET d == r.raw.n
                     b == r.pre[r.targetId].coins
                 IN  /\ r.status = 200
                     /\ Len(ledger) = r.preLedger + 1
                     /\ SubSeq(ledger, 1, r.preLedger) = SubSeq(ledger, 1, Len(ledger) - 1)
                     /\ ledger[Len(ledger)] =
                            [type |-> "admin_adjust", fromUserId |-> r.actor,
                             toUserId |-> r.targetId,
                             amount |-> (IF d >= 0 THEN d ELSE -d),
                             description |->
                                 Desc(IF d >= 0 THEN "Admin adjust (+" ELSE "Admin adjust (",
                                      r.reason, d, 0),
                             createdAt |-> now]
                     /\ users[r.targetId].coins = Max(0, b + d)

\* An adjustment of -100 on a balance of 50: the balance fell by 50 to 0,
\* the entry carries 100 and the signed -100.
C25_Witness ==
    \E p \in Procs :
        /\ Answered(p, "adjust") /\ req[p].status = 200
        /\ req[p].raw = Num(-100)
        /\ req[p].pre["alice"].coins = 50
        /\ users["alice"].coins = 0
        /\ ledger[Len(ledger)].type = "admin_adjust"
        /\ ledger[Len(ledger)].amount = 100
        /\ ledger[Len(ledger)].description.n1 = -100

\* An adjustment on an unknown target, one with a delta that is not a
\* number, and one of 0 have been answered.
C25_UnknownTarget ==
    \E p \in Procs : Answered(p, "adjust") /\ req[p].status = 404 /\ req[p].targetId = "ghost"
C25_NotFinite ==
    \E p \in Procs : Answered(p, "adjust") /\ req[p].status = 400 /\ req[p].raw = NaN
                      /\ req[p].targetId = "alice" /\ req[p].actor = "root"
C25_Zero ==
    \E p \in Procs : Answered(p, "adjust") /\ req[p].status = 200 /\ req[p].raw = Num(0)
                      /\ ledger[Len(ledger)].amount = 0

\* C24: levelUp validates its target.  A /level-up request whose target is
\* not a finite number, not an integer, not above the account's level or
\* above 10 is answered 400 "Invalid target level" with every account and
\* the ledger as the request found them; a request that was carried out
\* left the account at its target, above the level it had; and every
\* account's level is within 1..10.
C24_LevelUpValidates ==
    /\ \A u \in UserIds : users[u].level \in 1..MaxLevel
    /\ \A p \in Procs :
          LET r == req[p] IN
          (Answered(p, "levelup") /\ r.status # 401) =>
              /\ (\/ ~r.raw.finite \/ ~r.raw.whole
                  \/ r.raw.n <= r.pre[r.actor].level
                  \/ r.raw.n > 10) =>
                    /\ r.status = 400 /\ r.error = "Invalid target level"
                    /\ Untouched(p)
                    /\ ledger = SubSeq(ledger, 1, r.preLedger)
              /\ r.status = 200 =>
                    /\ r.raw.finite /\ r.raw.whole
                    /\ r.pre[r.actor].level < r.raw.n /\ r.raw.n <= 10
                    /\ users[r.actor].level = r.raw.n

\* A user at level 1 holding the 1000 coins ten levels would cost asked for
\* level 11 and was rejected.
C24_Witness ==
    \E p \in Procs :
        /\ Answered(p, "levelup")
        /\ req[p].raw = Num(11)
        /\ req[p].pre["alice"].role = "user"
        /\ req[p].pre["alice"].level = 1
        /\ req[p].pre["alice"].coins >= 1000
        /\ req[p].status = 400 /\ req[p].error = "Invalid target level"
        /\ users["alice"].level = 1

\* A target of 2.5, a target that is not a number and a target equal to
\* the current level have been rejected; level 10 has been reached.
C24_NotInteger ==
    \E p \in Procs : Answered(p, "levelup") /\ req[p].raw = Half(2) /\ req[p].status = 400
                      /\ req[p].pre["alice"].level = 1
C24_NotANumber ==
    \E p \in Procs : Answered(p, "levelup") /\ req[p].raw = NaN /\ req[p].status = 400
C24_NotAbove ==
    \E p \in Procs : Answered(p, "levelup") /\ req[p].raw = Num(2) /\ req[p].status = 400
                      /\ req[p].pre["alice"].level = 2
C24_Top ==
    \E p \in Procs : Answered(p, "levelup") /\ req[p].status = 200 /\ users["alice"].level = 10

-----------------------------------------------------------------------------
(* POST /level-up and /set-level on one account, one request after the other *)

\* alice, a user or an admin at level 1, holds 600 coins granted by root
\* through /adjust.
InitLevel ==
    /\ \E aliceRole \in {"user", "admin"} :
          users = [i \in AllIds |->
              CASE i = "alice" -> NewUser(aliceRole, 1, 600)
                [] i = "root"  -> NewUser("admin", 10, 999999)
                [] OTHER       -> NoUser]
    /\ initial = users
    /\ history = TRUE
    /\ now = 0
    /\ ledger = << Tx("admin_adjust", "root", "alice", 600, Desc("Admin adjust (+", "", 600, 0)) >>
    /\ auditLog = << >>
    /\ req = [p \in Procs |-> IdleReq]

LevelTargets == {Num(1), Num(2), Num(3), Num(4)}

NextLevel ==
    \E p \in {1} :
        \/ /\ Len(ledger) < 2 * MaxLedger
           /\ \/ \E lvl \in LevelTargets : StartLevelUp(p, "alice", lvl)
              \/ \E lvl \in {Num(1), Num(3)} : StartSetLevel(p, "root", "alice", lvl)
        \/ LevelSave(p) \/ LevelCreateTx(p)
        \/ AwardTryCoins(p) \/ AwardCreateTx(p) \/ AwardTryNoCoins(p) \/ AwardFindById(p)
        \/ AdminFind(p) \/ AdminSave(p) \/ AdminCreateTx(p) \/ AdminAudit(p)
        \/ Retire(p)

SpecLevel == InitLevel /\ [][NextLevel]_vars

LevelCodes == {"LEVEL2_UNLOCKED", "LEVEL3_UNLOCKED"}

\* The codes a /level-up to level t calls awardAchievement for.
CodesForLevel(t) ==
    (IF t >= 2 THEN {"LEVEL2_UNLOCKED"} ELSE {}) \cup (IF t >= 3 THEN {"LEVEL3_UNLOCKED"} ELSE {})

\* The level_up entries of an account.
LevelEntries(u) ==
    SelectSeq(ledger, LAMBDA t : t.type = "level_up" /\ t.fromUserId = u)

\* C11: levelUp grants the level achievements idempotently.  Over every
\* sequence of /level-up (and /set-level) requests on an account: a level
\* achievement is never held twice and has at most one achievement_reward
\* entry; once a /level-up to t >= 2 has been answered 200 the account holds
\* LEVEL2_UNLOCKED, and for t >= 3 also LEVEL3_UNLOCKED; its balance is the
\* initial one less the level costs paid plus the reward of each held level
\* achievement counted once; and a /level-up whose achievements were all
\* held on arrival leaves the achievement list as it was, changes the balance
\* by the cost alone and appends the level_up entry only.
C11_LevelAchievementsOnce ==
    /\ \A c \in LevelCodes :
          /\ Count(Codes(users["alice"].achievements), c) <= 1
          /\ Len(RewardEntries("alice", c)) <= 1
    /\ \A p \in {1} :
          LET r == req[p]
              before == r.pre[r.actor]
              after == users[r.actor]
              paid == IF before.role # "admin" THEN r.amt ELSE 0
          IN  (Answered(p, "levelup") /\ r.status = 200) =>
                /\ CodesForLevel(r.lvl) \subseteq HeldCodes(r.actor)
                /\ after.coins = initial[r.actor].coins
                                   - (IF before.role # "admin"
                                      THEN SumAmounts(LevelEntries(r.actor)) ELSE 0)
                                   + SumRewards(HeldCodes(r.actor) \cap LevelCodes)
                /\ (\A c \in CodesForLevel(r.lvl) : HasAchievement(before, c)) =>
                      /\ after.achievements = before.achievements
                      /\ after.coins = before.coins - paid
                      /\ Len(ledger) = r.preLedger + 1
                      /\ ledger[Len(ledger)].type = "level_up"

\* A /level-up to level 3 or above by an account that already held both
\* level achievements has been answered 200.
C11_Witness ==
    \E p \in {1} :
        /\ Answered(p, "levelup") /\ req[p].status = 200
        /\ req[p].lvl >= 3
        /\ \A c \in LevelCodes : HasAchievement(req[p].pre[req[p].actor], c)
        /\ Len(users[req[p].actor].achievements) = 2

-----------------------------------------------------------------------------
(* The coin routes on an account whose coin-ban is switched by an admin *)

\* alice holds 100 coins granted by root through /adjust and is coin-banned
\* or not.
InitDeny ==
    /\ \E banned \in BOOLEAN :
          users = [i \in AllIds |->
              CASE i = "alice" -> [NewUser("user", 1, 100) EXCEPT !.isBannedFromCoins = banned]
                [] i = "bob"   -> NewUser("user", 1, 0)
                [] i = "root"  -> NewUser("admin", 10, 999999)
                [] OTHER       -> NoUser]
    /\ initial = users
    /\ history = TRUE
    /\ now = 0
    /\ ledger = << Tx("admin_adjust", "root", "alice", 100, Desc("Admin adjust (+", "", 100, 0)) >>
    /\ auditLog = << >>
    /\ req = [p \in Procs |-> IdleReq]

DenyTargets == {"bob", "alice", "ghost", ""}
DenyAmounts == {Num(40), Num(500), Num(0), Num(-5), NaN}

NextDeny ==
    \E p \in {1} :
        \/ /\ Len(ledger) < MaxLedger
           /\ \/ \E to \in DenyTargets, amt \in DenyAmounts : StartTransfer(p, "alice", to, amt)
              \/ \E key \in {"chat", "no_such_feature"} : StartBuy(p, "alice", key)
              \/ \E lvl \in {Num(2), Num(1)} : StartLevelUp(p, "alice", lvl)
              \/ \E d \in {Num(50), Num(-30)} : StartAdjust(p, "root", "alice", d, "")
              \/ \E b \in BOOLEAN : StartSetBans(p, "root", "alice", Absent, Bool(b))
              \/ StartAward(p, "alice", "FIRST_LOGIN")
        \/ TransferFind(p) \/ TransferCount(p) \/ TransferSum(p)
        \/ TransferSaveUser(p) \/ TransferSaveTarget(p) \/ TransferCreateTx(p)
        \/ BuySave(p) \/ BuyCreateTx(p)
        \/ LevelSave(p) \/ LevelCreateTx(p)
        \/ AwardTryCoins(p) \/ AwardCreateTx(p) \/ AwardTryNoCoins(p) \/ AwardFindById(p)
        \/ AdjustFind(p) \/ AdjustSave(p) \/ AdjustCreateTx(p) \/ AdjustAudit(p)
        \/ AdminFind(p) \/ AdminSave(p) \/ AdminCreateTx(p) \/ AdminAudit(p)
        \/ Retire(p)

SpecDeny == InitDeny /\ [][NextDeny]_vars

\* The ledger is what it was when request p arrived.
LedgerAsBefore(p) == ledger = SubSeq(ledger, 1, req[p].preLedger) /\ Len(ledger) = req[p].preLedger

\* C15: policy denials perform no mutation.  A /transfer request of a
\* coin-banned sender is answered 403; otherwise one whose amount is not a
\* positive finite number or whose destination name is empty is answered
\* 400, one whose destination resolves to no account 404, one to the sender
\* itself 400, and one for more than the sender's balance 400; in each case
\* no account and no ledger entry has changed.  /buy-feature and /level-up
\* by a coin-banned account are rejected (403 when the request is otherwise
\* valid) with nothing changed.  /adjust on a coin-banned target is carried
\* out: the clamped balance is written and an admin_adjust entry appended.
C15_DenialsDoNotMutate ==
    \A p \in {1} :
        LET r == req[p]
            before == r.pre[r.actor]
            badAmount == ~r.raw.finite \/ r.raw.n <= 0
            noTarget == r.targetId \notin UserIds
        IN  /\ (Answered(p, "transfer") /\ before.exists) =>
                  /\ before.isBannedFromCoins =>
                        r.status = 403 /\ users = r.pre /\ LedgerAsBefore(p)
                  /\ (~before.isBannedFromCoins /\ (badAmount \/ r.targetId = "")) =>
                        r.status = 400 /\ users = r.pre /\ LedgerAsBefore(p)
                  /\ (~before.isBannedFromCoins /\ ~badAmount /\ r.targetId # "" /\ noTarget) =>
                        r.status = 404 /\ users = r.pre /\ LedgerAsBefore(p)
                  /\ (~before.isBannedFromCoins /\ ~badAmount /\ r.targetId = r.actor) =>
                        r.status = 400 /\ users = r.pre /\ LedgerAsBefore(p)
                  /\ (~before.isBannedFromCoins /\ ~badAmount /\ ~noTarget
                         /\ r.targetId # r.actor /\ before.coins < r.raw.n) =>
                        /\ r.status = 400 /\ r.error = "Not enough coins"
                        /\ users = r.pre /\ LedgerAsBefore(p)
            /\ ((Answered(p, "buy") \/ Answered(p, "levelup"))
                    /\ before.exists /\ before.isBannedFromCoins) =>
                  /\ r.status \in {400, 403}
                  /\ users = r.pre /\ LedgerAsBefore(p)
                  /\ (r.kind = "buy" /\ r.key \in DOMAIN FEATURE_PRICES) => r.status = 403
                  /\ (r.kind = "levelup" /\ r.raw.finite /\ r.raw.whole
                         /\ r.lvl > before.level /\ r.lvl <= MaxLevel) => r.status = 403
            /\ (Answered(p, "adjust") /\ before.exists /\ before.role = "admin"
                    /\ r.raw.finite /\ r.targetId \in UserIds
                    /\ r.pre[r.targetId].isBannedFromCoins) =>
                  /\ r.status = 200
                  /\ users[r.targetId].coins = Max(0, r.pre[r.targetId].coins + r.raw.n)
                  /\ Len(ledger) = r.preLedger + 1
                  /\ ledger[Len(ledger)].type = "admin_adjust"
                  /\ ledger[Len(ledger)].toUserId = r.targetId

\* A coin-banned sender with enough coins asked for a valid transfer and was
\* answered 403.
C15_Witness ==
    \E p \in {1} :
        /\ Answered(p, "transfer")
        /\ req[p].pre["alice"].isBannedFromCoins
        /\ req[p].targetId = "bob" /\ req[p].raw = Num(40)
        /\ req[p].pre["alice"].coins >= 40
        /\ req[p].status = 403

-----------------------------------------------------------------------------
(* POST /transfer over the trailing window of dailyLimitsOK *)

\* Date.now() moves on by half a window while no request is in flight.
Tick ==
    /\ Quiet
    /\ now < MaxTime * (WindowHours \div 2)
    /\ now' = now + (WindowHours \div 2)
    /\ UNCHANGED <<users, initial, history, ledger, auditLog, req>>

\* alice, a user or an admin, holds 25 coins granted by root through /adjust.
InitRate ==
    /\ \E aliceRole \in {"user", "admin"} :
          users = [i \in AllIds |->
              CASE i = "alice" -> NewUser(aliceRole, 1, 25)
                [] i = "bob"   -> NewUser("user", 1, 0)
                [] i = "root"  -> NewUser("admin", 10, 999999)
                [] OTHER       -> NoUser]
    /\ initial = users
    /\ history = TRUE
    /\ now = 0
    /\ ledger = << Tx("admin_adjust", "root", "alice", 25, Desc("Admin adjust", "", 0, 0)) >>
    /\ auditLog = << >>
    /\ req = [p \in Procs |-> IdleReq]

NextRate ==
    \/ \E p \in {1} :
          \/ /\ Len(TransfersSince("alice", 0)) < MaxRateLedger
             /\ StartTransfer(p, "alice", "bob", Num(1))
          \/ TransferFind(p) \/ TransferCount(p) \/ TransferSum(p)
          \/ TransferSaveUser(p) \/ TransferSaveTarget(p) \/ TransferCreateTx(p)
          \/ Retire(p)
    \/ Tick

SpecRate == InitRate /\ [][NextRate]_vars

\* The transfer entries of the sender of request p that were in the ledger
\* when p arrived and lie inside the trailing window.
PriorInWindow(p) ==
    LET r == req[p] IN
    Len(SelectSeq(SubSeq(ledger, 1, r.preLedger),
                  LAMBDA t : /\ t.type = "transfer"
                             /\ t.fromUserId = r.actor
                             /\ t.createdAt >= now - WindowHours))

\* C7: rate window by count.  A valid /transfer request of a sender who
\* already has 20 transfer entries inside the trailing 24 hours: when the
\* sender is no admin it is answered 429 "Daily transfer count limit
\* reached", no balance has changed and the ledger has no new entry, even
\* though the balance covers the amount; when the sender is an admin it is
\* not answered 429, and with a covering balance it is carried out.
C7_RateWindowByCount ==
    \A p \in Procs :
        LET r == req[p] IN
        (/\ Answered(p, "transfer")
         /\ r.status \notin {401, 403, 404}
         /\ r.error # "Invalid request"
         /\ PriorInWindow(p) >= MaxTransfers)
        => IF r.pre[r.actor].role # "admin"
           THEN /\ r.status = 429
                /\ r.error = "Daily transfer count limit reached"
                /\ Untouched(p)
           ELSE /\ r.status # 429
                /\ r.pre[r.actor].coins >= r.amt
                   => /\ r.status = 200
                      /\ Len(ledger) = r.preLedger + 1
                      /\ users[r.actor].coins = r.pre[r.actor].coins - r.amt

\* A sender who is no admin, has 20 transfers inside the window and holds
\* enough coins for the amount has been answered 429.
C7_Witness ==
    \E p \in Procs :
        /\ Answered(p, "transfer")
        /\ req[p].pre[req[p].actor].role # "admin"
        /\ PriorInWindow(p) = MaxTransfers
        /\ req[p].pre[req[p].actor].coins >= req[p].amt
        /\ req[p].status = 429

\* An admin with 20 transfers inside the window has made one more.
C7_AdminCase ==
    \E p \in Procs :
        /\ Answered(p, "transfer")
        /\ req[p].pre[req[p].actor].role = "admin"
        /\ PriorInWindow(p) = MaxTransfers
        /\ req[p].status = 200

\* A sender who is no admin has made a transfer again after earlier
\* transfers left the window.
C7_WindowSlides ==
    \E p \in Procs :
        /\ Answered(p, "transfer")
        /\ req[p].pre[req[p].actor].role # "admin"
        /\ req[p].preLedger = MaxTransfers + 1
        /\ req[p].status = 200

-----------------------------------------------------------------------------
(* POST /transfer with amounts of the order of the daily coin limit *)

\* alice, a user or an admin, holds 6000 coins granted by root through /adjust.
InitRateSum ==
    /\ \E aliceRole \in {"user", "admin"} :
          users = [i \in AllIds |->
              CASE i = "alice" -> NewUser(aliceRole, 1, 6000)
                [] i = "bob"   -> NewUser("user", 1, 0)
                [] i = "root"  -> NewUser("admin", 10, 999999)
                [] OTHER       -> NoUser]
    /\ initial = users
    /\ history = TRUE
    /\ now = 0
    /\ ledger = << Tx("admin_adjust", "root", "alice", 6000, Desc("Admin adjust", "", 0, 0)) >>
    /\ auditLog = << >>
    /\ req = [p \in Procs |-> IdleReq]

\* The amounts sent: half the limit, one below the limit, above the limit.
RateSumAmounts == {Num(1000), Num(1999), Num(2500)}

NextRateSum ==
    \/ \E p \in {1} :
          \/ /\ Len(ledger) <= MaxLedger
             /\ \E amt \in RateSumAmounts : StartTransfer(p, "alice", "bob", amt)
          \/ TransferFind(p) \/ TransferCount(p) \/ TransferSum(p)
          \/ TransferSaveUser(p) \/ TransferSaveTarget(p) \/ TransferCreateTx(p)
          \/ Retire(p)
    \/ Tick

SpecRateSum == InitRateSum /\ [][NextRateSum]_vars

\* The transfer entries of the sender of request p that were in the ledger
\* when p arrived and lie inside the window dailyLimitsOK looked at.
PriorTransfers(p) ==
    LET r == req[p] IN
    SelectSeq(SubSeq(ledger, 1, r.preLedger),
              LAMBDA t : /\ t.type = "transfer"
                         /\ t.fromUserId = r.actor
                         /\ t.createdAt >= r.since)

\* Request p is an answered /transfer of a sender who is no admin, and it
\* got as far as the rate check.
RateChecked(p) ==
    /\ Answered(p, "transfer")
    /\ req[p].pre[req[p].actor].role # "admin"
    /\ req[p].status \notin {401, 403, 404}
    /\ req[p].error \notin {"Invalid request", "Cannot send coins to yourself"}

\* C21: rate window by sum, evaluated before the current operation.  A
\* /transfer of a sender who is no admin, with fewer than 20 transfers inside
\* the trailing 24 hours: when the amounts of those transfers sum to 2000 or
\* more it is answered 429 "Daily coin sending limit reached" and nothing
\* has changed; when they sum to less than 2000 it is not answered 429
\* whatever its own amount, and with a covering balance it is carried out
\* and its entry carries its amount.
C21_RateWindowBySum ==
    \A p \in Procs :
        LET r == req[p]
            count == Len(PriorTransfers(p))
            sum == SumAmounts(PriorTransfers(p))
        IN  (RateChecked(p) /\ r.since = now - WindowHours /\ count < MaxTransfers) =>
                IF sum >= MaxCoinsPerDay
                THEN /\ r.status = 429
                     /\ r.error = "Daily coin sending limit reached"
                     /\ Untouched(p)
                ELSE /\ r.status # 429
                     /\ r.pre[r.actor].coins >= r.amt =>
                           /\ r.status = 200
                           /\ Len(ledger) = r.preLedger + 1
                           /\ ledger[Len(ledger)].type = "transfer"
                           /\ ledger[Len(ledger)].amount = r.amt
                           /\ users[r.actor].coins = r.pre[r.actor].coins - r.amt

\* A sender with two transfers of 1000 inside the window and a balance that
\* covers the amount has been answered 429.
C21_Witness ==
    \E p \in Procs :
        /\ RateChecked(p) /\ req[p].since = now - WindowHours
        /\ Len(PriorTransfers(p)) = 2
        /\ SumAmounts(PriorTransfers(p)) = MaxCoinsPerDay
        /\ req[p].pre["alice"].coins >= req[p].amt
        /\ req[p].status = 429

\* A sender with 1999 coins sent inside the window has sent 2500 more.
C21_AttemptNotCounted ==
    \E p \in Procs :
        /\ RateChecked(p) /\ req[p].since = now - WindowHours
        /\ SumAmounts(PriorTransfers(p)) = 1999
        /\ req[p].amt = 2500
        /\ req[p].status = 200

\* A sender whose earlier transfers of 2000 have left the window has sent
\* again.
C21_WindowSlides ==
    \E p \in Procs :
        /\ RateChecked(p) /\ req[p].since = now - WindowHours
        /\ req[p].preLedger = 3
        /\ SumAmounts(PriorTransfers(p)) = 0
        /\ req[p].status = 200

-----------------------------------------------------------------------------
(* Concurrent POST /transfer requests of one sender *)

\* alice, a user, was granted 6000 coins by root through /adjust and has
\* sent 1000 of them to bob.
InitRace ==
    /\ users = [i \in AllIds |->
          CASE i = "alice" -> NewUser("user", 1, 5000)
            [] i = "bob"   -> NewUser("user", 1, 1000)
            [] i = "root"  -> NewUser("admin", 10, 999999)
            [] OTHER       -> NoUser]
    /\ initial = users
    /\ history = TRUE
    /\ now = 0
    /\ ledger = << Tx("admin_adjust", "root", "alice", 6000, Desc("Admin adjust", "", 0, 0)),
                   Tx("transfer", "alice", "bob", 1000, Desc("User transfer", "", 0, 0)) >>
    /\ auditLog = << >>
    /\ req = [p \in Procs |-> IdleReq]

\* The amounts sent: half and a quarter of the daily coin limit.
RaceAmounts == {Num(1000), Num(500)}

\* Each slot serves one request.
NextRace ==
    \E p \in Procs :
        \/ \E amt \in RaceAmounts : StartTransfer(p, "alice", "bob", amt)
        \/ TransferFind(p) \/ TransferCount(p) \/ TransferSum(p)
        \/ TransferSaveUser(p) \/ TransferSaveTarget(p) \/ TransferCreateTx(p)

SpecRace == InitRace /\ [][NextRace]_vars

\* The transfer entries of the sender of entry i that precede it in the
\* ledger and lie inside the 24 hours before it.
WindowBefore(i) ==
    SelectSeq(SubSeq(ledger, 1, i - 1),
              LAMBDA t : /\ t.type = "transfer"
                         /\ t.fromUserId = ledger[i].fromUserId
                         /\ t.createdAt >= ledger[i].createdAt - WindowHours)

\* Some transfer entry of a sender who is no admin was appended although the
\* sender's window already held 20 transfers or 2000 coins: more than
\* /transfer requests served one after the other let through.
LimitExceeded ==
    \E i \in 1..Len(ledger) :
        /\ ledger[i].type = "transfer"
        /\ initial[ledger[i].fromUserId].role # "admin"
        /\ \/ Len(WindowBefore(i)) >= MaxTransfers
           \/ SumAmounts(WindowBefore(i)) >= MaxCoinsPerDay

\* C22: the rate window is a read-then-decide check, not a reservation.
\* The steps of dailyLimitsOK change neither an account nor the ledger, and
\* a request leaves them for the debit only when the entries it read were
\* under the limits: fewer than 20 at the count, less than 2000 coins at
\* the sum.  Nothing is set aside for the request between its check and its
\* insert (the witness is the interleaving in which two requests pass on
\* the same reading and the window ends above the limit).
C22_ReadThenDecide ==
    [][\A p \in Procs :
          LET r == req[p]
              seen == TransfersSince(r.actor, r.since)
          IN  /\ (r.pc \in {"tr_count", "tr_sum"} /\ req'[p] # r) =>
                    /\ users' = users /\ ledger' = ledger
                    /\ req'[p].pc \in {"tr_sum", "tr_save_user", "done"}
              /\ (r.pc = "tr_count" /\ req'[p].pc = "tr_sum") =>
                    Len(seen) < MaxTransfers
              /\ (r.pc = "tr_sum" /\ req'[p].pc = "tr_save_user") =>
                    SumAmounts(seen) < MaxCoinsPerDay
              /\ (r.pc \in {"tr_count", "tr_sum"} /\ req'[p].pc = "done") =>
                    req'[p].status \in {400, 429}]_vars

\* Two requests that arrived when the sender had sent 1000 coins have both
\* been carried out: the second entry was appended to a window that already
\* held 2000 coins.
C22_Witness ==
    \E p, q \in Procs :
        /\ p # q
        /\ Answered(p, "transfer") /\ Answered(q, "transfer")
        /\ req[p].status = 200 /\ req[q].status = 200
        /\ req[p].preLedger = 2 /\ req[q].preLedger = 2
        /\ req[p].amt = 1000 /\ req[q].amt = 1000
        /\ Len(ledger) = 4
        /\ SumAmounts(TransfersSince("alice", now - WindowHours)) = 3000
        /\ LimitExceeded

\* Requests served one after the other never leave the window above the
\* limit (a state predicate for SpecRateSum).
C22_SequentialBound == ~LimitExceeded

-----------------------------------------------------------------------------
(* The coin routes and awardAchievement, concurrently *)

\* alice and bob were funded by the admin and bought the chat feature.
\* The entries by which alice and bob were funded and bought "chat".
FundingLedger ==
    << Tx("admin_adjust", "root", "alice", 300, Desc("Admin adjust (+", "", 300, 0)),
       Tx("feature_purchase", "alice", None, 100, Desc("Feature purchase: ", "chat", 0, 0)),
       Tx("admin_adjust", "root", "bob", 100, Desc("Admin adjust (+", "", 100, 0)),
       Tx("feature_purchase", "bob", None, 100, Desc("Feature purchase: ", "chat", 0, 0)) >>

InitCoins ==
    /\ users = [i \in AllIds |->
          CASE i = "alice" -> [NewUser("user", 1, 200) EXCEPT !.unlocks = {"chat"}]
            [] i = "bob"   -> [NewUser("user", 1, 0) EXCEPT !.unlocks = {"chat"}]
            [] i = "root"  -> NewUser("admin", 10, 999999)
            [] OTHER       -> NoUser]
    /\ initial = users
    /\ history = FALSE
    /\ now = 0
    /\ ledger = FundingLedger
    /\ auditLog = << >>
    /\ req = [p \in Procs |-> IdleReq]

NextCoins ==
    \E p \in Procs :
        \/ StartTransfer(p, "alice", "bob", Num(150))
        \/ StartDm(p, "alice", "bob", Num(150))
        \/ StartBuy(p, "alice", "imageUpload")
        \/ StartLevelUp(p, "alice", Num(3))
        \/ StartAdjust(p, "root", "alice", Num(-250), "")
        \/ StartAward(p, "alice", "FIRST_LOGIN")
        \/ TransferFind(p) \/ TransferCount(p) \/ TransferSum(p)
        \/ TransferSaveUser(p) \/ TransferSaveTarget(p) \/ TransferCreateTx(p)
        \/ DmFind(p) \/ DmCreateTx(p) \/ DmCreateMessage(p) \/ RecordInc(p) \/ ApUpdate(p)
        \/ BuySave(p) \/ BuyCreateTx(p)
        \/ LevelSave(p) \/ LevelCreateTx(p)
        \/ AdjustFind(p) \/ AdjustSave(p) \/ AdjustCreateTx(p) \/ AdjustAudit(p)
        \/ AwardTryCoins(p) \/ AwardCreateTx(p) \/ AwardTryNoCoins(p) \/ AwardFindById(p)

SpecCoins == InitCoins /\ [][NextCoins]_vars

\* C2: non-negative balance.  In every reachable state of every interleaving
\* of transfer, DM coin-send, purchaseFeature, levelUp, adminAdjust and
\* awardAchievement requests on the same accounts, every balance is >= 0.
C2_NonNegativeBalance == \A u \in UserIds : users[u].coins >= 0

\* Two debiting requests of alice both loaded the balance 200 before either
\* wrote (each holds a document debited from 200), and both have written.
C2_Witness ==
    \E p, q \in Procs :
        /\ p # q
        /\ req[p].kind = "transfer" /\ req[p].pc = "done" /\ req[p].status = 200
        /\ req[q].kind = "buy" /\ req[q].pc = "done" /\ req[q].status = 200
        /\ req[p].user.coins = 200 - 150
        /\ req[q].user.coins = 200 - Price("imageUpload")
        /\ users["alice"].coins >= 0

\* Request p, of one of the five operations, has completed successfully.
Succeeded(p) ==
    LET r == req[p] IN
    \/ r.kind \in {"transfer", "dm", "buy", "levelup", "adjust"} /\ r.pc = "done" /\ r.status = 200
    \/ r.kind = "award" /\ r.pc = "done" /\ r.path = "coins"

\* Entry t is the ledger entry of the matching type for request p: it names
\* the accounts whose balance p changed and carries p's amount.
EntryOf(p, t) ==
    LET r == req[p] IN
    CASE r.kind = "transfer" ->
            /\ t.type = "transfer" /\ t.fromUserId = r.actor /\ t.toUserId = r.targetId
            /\ t.amount = r.amt /\ t.description.text = "User transfer"
      [] r.kind = "dm" ->
            /\ t.type = "transfer" /\ t.fromUserId = r.actor /\ t.toUserId = r.targetId
            /\ t.amount = r.amt /\ t.description.text = "DM transfer"
      [] r.kind = "buy" ->
            /\ t.type = "feature_purchase" /\ t.fromUserId = r.actor
            /\ t.amount = Price(r.key) /\ t.description.arg = r.key
      [] r.kind = "levelup" ->
            t.type = "level_up" /\ t.fromUserId = r.actor /\ t.amount = r.amt
      [] r.kind = "adjust" ->
            t.type = "admin_adjust" /\ t.toUserId = r.targetId /\ t.amount = Abs(r.amt)
      [] r.kind = "award" ->
            /\ t.type = "achievement_reward" /\ t.toUserId = r.actor
            /\ t.amount = Reward(r.awarded)
            /\ t.description.arg = ACHIEVEMENTS[r.awarded].title
      [] OTHER -> FALSE

\* The entries appended since the initial state.
NewEntries == SubSeq(ledger, Len(FundingLedger) + 1, Len(ledger))

\* The successful requests that ask for the same entry as p.
SameAs(p) ==
    {q \in Procs : /\ Succeeded(q) /\ req[q].kind = req[p].kind
                    /\ req[q].actor = req[p].actor /\ req[q].targetId = req[p].targetId
                    /\ req[q].amt = req[p].amt /\ req[q].key = req[p].key
                    /\ req[q].awarded = req[p].awarded}

EconomicTypes == {"transfer", "feature_purchase", "level_up", "admin_adjust", "achievement_reward"}

\* C17: every economic mutation is recorded.  Under every interleaving of
\* /transfer, /dm/send, /buy-feature, /level-up, /adjust and awardAchievement
\* requests: each request that has completed successfully has its own ledger
\* entry of the matching type, naming the account(s) it debited or credited
\* and carrying its amount (n successful requests asking for the same entry
\* have n entries); and in every state in which no request is in flight, an
\* account whose balance differs from the initial one is named by an entry
\* appended since, and every achievement the unbanned account has been
\* granted since has its achievement_reward entry.
C17_MutationsRecorded ==
    /\ \A p \in Procs :
          Succeeded(p) =>
              Len(SelectSeq(NewEntries, LAMBDA t : EntryOf(p, t))) >= Cardinality(SameAs(p))
    /\ Quiet =>
          /\ \A u \in UserIds :
                users[u].coins # initial[u].coins =>
                    \E i \in 1..Len(NewEntries) :
                        /\ NewEntries[i].type \in EconomicTypes
                        /\ u \in {NewEntries[i].fromUserId, NewEntries[i].toUserId}
          /\ \A u \in UserIds : \A c \in HeldCodes(u) :
                (~HasAchievement(initial[u], c) /\ ~users[u].isBannedFromCoins) =>
                    Len(RewardEntries(u, c)) = 1

\* No request is in flight; a /transfer and a /level-up of alice, which both
\* read the balance 200, have both completed successfully.
C17_Witness ==
    /\ Quiet
    /\ \E p, q \in Procs :
          /\ req[p].kind = "transfer" /\ Succeeded(p)
          /\ req[q].kind = "levelup" /\ Succeeded(q)
          /\ req[q].amt = 200
          /\ users["bob"].coins = 150
          /\ Len(NewEntries) = 4

\* Request p takes the step that is the account write of /buy-feature.
BuyWrites(p) == req[p].pc = "buy_save" /\ req'[p].pc = "buy_tx"

\* C23: purchaseFeature deducts and unlocks together.  In every step of
\* every interleaving: the account write of a /buy-feature request sets the
\* unlock flag of its feature and writes the balance less the price in that
\* one step, touching no other account and not the ledger; an unlock flag
\* appears on an account only in such a step, together with the deduction;
\* and a feature_purchase entry is appended only by a request that stands
\* past its account write, for the price of a feature whose flag is already
\* in the store.
C23_DeductAndUnlockTogether ==
    [][/\ \A p \in Procs :
             BuyWrites(p) =>
                 LET r == req[p] IN
                 /\ r.key \in users'[r.actor].unlocks
                 /\ users'[r.actor].coins = r.user.coins - Price(r.key)
                 /\ Price(r.key) > 0
                 /\ \A v \in AllIds \ {r.actor} : users'[v] = users[v]
                 /\ ledger' = ledger
       /\ \A u \in UserIds :
             \A k \in users'[u].unlocks \ users[u].unlocks :
                 \E p \in Procs :
                     /\ BuyWrites(p)
                     /\ req[p].actor = u /\ req[p].key = k
                     /\ users'[u].coins = req[p].user.coins - Price(k)
       /\ \A u \in UserIds : users[u].unlocks \subseteq users'[u].unlocks
       /\ (Len(ledger') > Len(ledger) /\ ledger'[Len(ledger')].type = "feature_purchase") =>
             \E p \in Procs :
                 LET r == req[p]
                     t == ledger'[Len(ledger')]
                 IN  /\ r.kind = "buy" /\ r.pc = "buy_tx" /\ req'[p].pc = "done"
                     /\ t.fromUserId = r.actor /\ t.amount = Price(r.key)
                     /\ t.description = Desc("Feature purchase: ", r.key, 0, 0)
                     /\ r.key \in users[r.actor].unlocks
                     /\ users' = users
      ]_vars

\* A /buy-feature request stands between its account write and its ledger
\* insert: the flag is set, the price is deducted, the entry is not there.
C23_Witness ==
    \E p \in Procs :
        /\ req[p].kind = "buy" /\ req[p].pc = "buy_tx"
        /\ req[p].actor = "alice" /\ req[p].key = "imageUpload"
        /\ "imageUpload" \in users["alice"].unlocks
        /\ "imageUpload" \notin initial["alice"].unlocks
        /\ users["alice"].coins = initial["alice"].coins - 150
        /\ \A i \in 1..Len(ledger) : ledger[i].type = "feature_purchase" =>
                                           ledger[i].description.arg # "imageUpload"

-----------------------------------------------------------------------------
(* Every operation of the engine, one request after the other, on a store
   whose calls may be rejected; each slot serves one request *)

InitOps ==
    /\ users = [i \in AllIds |->
          CASE i = "alice" -> [NewUser("user", 1, 200) EXCEPT !.unlocks = {"chat"}]
            [] i = "bob"   -> [NewUser("user", 1, 0) EXCEPT !.unlocks = {"chat"}]
            [] i = "root"  -> NewUser("admin", 10, 999999)
            [] OTHER       -> NoUser]
    /\ initial = users
    /\ history = TRUE
    /\ now = 0
    /\ ledger = FundingLedger
    /\ auditLog = << >>
    /\ req = [p \in Procs |-> IdleReq]

\* Slot p takes the next request once the requests of the slots before it
\* have been answered.
NextOps ==
    \E p \in Procs :
        \/ /\ \A q \in 1..(p - 1) : req[q].pc = "done"
           /\ \/ StartTransfer(p, "alice", "bob", Num(50))
              \/ StartDm(p, "alice", "bob", Num(50))
              \/ StartBuy(p, "alice", "imageUpload")
              \/ StartLevelUp(p, "alice", Num(2))
              \/ StartAdjust(p, "root", "alice", Num(-250), "")
              \/ StartAward(p, "alice", "FIRST_LOGIN")
              \/ StartRecord(p, "alice", "chat", "dmMessagesSent", Num(1))
              \/ StartSetRole(p, "root", "alice", "mod")
              \/ StartSetLevel(p, "root", "alice", Num(3))
              \/ StartSetBans(p, "root", "bob", Absent, Bool(TRUE))
        \/ TransferFind(p) \/ TransferCount(p) \/ TransferSum(p)
        \/ TransferSaveUser(p) \/ TransferSaveTarget(p) \/ TransferCreateTx(p)
        \/ DmFind(p) \/ DmCreateTx(p) \/ DmCreateMessage(p) \/ RecordInc(p) \/ ApUpdate(p)
        \/ BuySave(p) \/ BuyCreateTx(p)
        \/ LevelSave(p) \/ LevelCreateTx(p)
        \/ AdjustFind(p) \/ AdjustSave(p) \/ AdjustCreateTx(p) \/ AdjustAudit(p)
        \/ AdminFind(p) \/ AdminSave(p) \/ AdminCreateTx(p) \/ AdminAudit(p)
        \/ AwardTryCoins(p) \/ AwardCreateTx(p) \/ AwardTryNoCoins(p) \/ AwardFindById(p)
        \/ StoreFails(p)

SpecOps == InitOps /\ [][NextOps]_vars

\* C16: the ledger is append-only.  Every step of every operation
\* (awardAchievement, recordFeatureAction, /transfer, /dm/send, /buy-feature,
\* /level-up, /adjust, /set-role, /set-level, /set-bans, also when a store call
\* is rejected) leaves the ledger as it was or adds entries at its end: the
\* entries already there stay at their place with their content.
C16_LedgerAppendOnly ==
    [][/\ Len(ledger') >= Len(ledger)
       /\ SubSeq(ledger', 1, Len(ledger)) = ledger]_vars

\* The ledger has grown past the funding entries by entries of an admin
\* route and of a coin route.
C16_Witness ==
    /\ Len(ledger) >= Len(FundingLedger) + 2
    /\ SubSeq(ledger, 1, Len(FundingLedger)) = FundingLedger
    /\ \E i \in 1..Len(ledger) : ledger[i].type \in {"admin_set_role", "admin_set_level", "admin_set_bans"}
    /\ \E i \in 1..Len(ledger) : ledger[i].type \in {"transfer", "level_up", "achievement_reward"}

\* Slot p holds the request that arrived last.
Current(p) == req[p].pc # "idle" /\ \A q \in Procs : q > p => req[q].pc = "idle"

\* The operations whose entries are of type transfer, feature_purchase,
\* level_up and admin_adjust.
LedgerKinds == {"transfer", "dm", "buy", "levelup", "adjust"}

\* The steps of these operations that come before the ledger insert.
BeforeInsertPcs ==
    {"tr_find", "tr_count", "tr_sum", "tr_save_user", "tr_save_target", "dm_find",
     "buy_save", "lv_save", "adj_find", "adj_save"}

\* The account writes among them.
AccountWritePcs == {"tr_save_user", "tr_save_target", "buy_save", "lv_save", "adj_save"}

\* The ledger inserts.
InsertPcs == {"tr_tx", "buy_tx", "lv_tx", "adj_tx"}

\* The account mutation of request p is in the store.
Applied(p) ==
    LET r == req[p]
        before == r.pre
    IN  CASE r.kind \in {"transfer", "dm"} ->
                /\ users[r.actor].coins = before[r.actor].coins - r.amt
                /\ users[r.targetId].coins =
                       before[r.targetId].coins
                       + (IF before[r.targetId].isBannedFromCoins THEN 0 ELSE r.amt)
          [] r.kind = "buy" ->
                /\ r.key \in users[r.actor].unlocks
                /\ users[r.actor].coins = before[r.actor].coins - Price(r.key)
          [] r.kind = "levelup" ->
                /\ users[r.actor].level = r.lvl
                /\ users[r.actor].coins =
                       before[r.actor].coins
                       - (IF before[r.actor].role # "admin" THEN r.amt ELSE 0)
                       + SumRewards(NewCodes(p))
          [] r.kind = "adjust" ->
                users[r.targetId].coins = Max(0, before[r.targetId].coins + r.amt)
          [] OTHER -> FALSE

\* C18: ledger entries are terminal, never speculative.  For the request in
\* progress of /transfer, /dm/send, /buy-feature, /level-up or /adjust: up to
\* and including its account writes the ledger is as the request found it;
\* when it stands at its ledger insert, its account mutation is in the
\* store and the ledger is still as it was; once the ledger has grown, the
\* first new entry is the request's own, of the matching type, and the
\* mutation is in the store; and a request that was rejected, or that ended
\* because a store call up to and including an account write was rejected,
\* has appended nothing.
C18_EntriesAreTerminal ==
    \A p \in Procs :
        LET r == req[p] IN
        (Current(p) /\ r.kind \in LedgerKinds) =>
            /\ r.pc \in BeforeInsertPcs => Len(ledger) = r.preLedger
            /\ (r.pc \in InsertPcs /\ (r.kind = "dm" => r.amt > 0)) =>
                  Applied(p) /\ Len(ledger) = r.preLedger
            /\ Len(ledger) > r.preLedger =>
                  /\ Applied(p)
                  /\ EntryOf(p, ledger[r.preLedger + 1])
            /\ (r.pc = "done" /\ (r.status \in {400, 401, 403, 404, 429}
                                    \/ r.failedAt \in BeforeInsertPcs)) =>
                  /\ Len(ledger) = r.preLedger
                  /\ r.failedAt # "tr_save_target" => users = r.pre

\* A /transfer whose debit was written and whose insert is the next step;
\* the entry is not yet in the ledger.
C18_Witness ==
    \E p \in Procs :
        /\ Current(p)
        /\ req[p].kind = "transfer" /\ req[p].pc = "tr_tx"
        /\ users["alice"].coins = req[p].pre["alice"].coins - 50
        /\ Len(ledger) = req[p].preLedger

\* A /buy-feature whose account write was rejected has been answered 500.
C18_WriteFailed ==
    \E p \in Procs :
        /\ Current(p)
        /\ req[p].kind = "buy" /\ req[p].failedAt = "buy_save" /\ req[p].status = 500
        /\ Len(ledger) = req[p].preLedger

\* A /level-up to level 2 has appended its entry and the entry of its award.
C18_EntryWritten ==
    \E p \in Procs :
        /\ Current(p)
        /\ req[p].kind = "levelup" /\ req[p].pc = "done" /\ req[p].status = 200
        /\ Len(ledger) = req[p].preLedger + 2

\* Request p stands at its audit call with its mutation and its ledger
\* entry written.
Committed(p) ==
    LET r == req[p]
        last == ledger[Len(ledger)]
    IN  /\ Len(ledger) = r.preLedger + 1
        /\ last.fromUserId = r.actor /\ last.toUserId = r.targetId
        /\ CASE r.kind = "adjust" ->
                  /\ last.type = "admin_adjust" /\ last.amount = Abs(r.amt)
                  /\ users[r.targetId].coins = Max(0, r.pre[r.targetId].coins + r.amt)
             [] r.kind = "set_role" ->
                  last.type = "admin_set_role" /\ users[r.targetId].role = r.key
             [] r.kind = "set_level" ->
                  last.type = "admin_set_level" /\ users[r.targetId].level = r.lvl
             [] r.kind = "set_bans" ->
                  /\ last.type = "admin_set_bans"
                  /\ r.coinsBan.given => users[r.targetId].isBannedFromCoins = r.coinsBan.v
                  /\ r.chatBan.given => users[r.targetId].isBannedFromChat = r.chatBan.v
             [] OTHER -> FALSE

\* C26: audit-log failure never reverses or fails an economic mutation.
\* When /adjust, /set-role, /set-level or /set-bans takes its audit step and
\* the audit-log write fails (the audit log is as before), the account
\* mutation and the ledger entry written before are in place and stay as
\* they are, and the request is answered 200.
C26_AuditFailureHarmless ==
    [][\A p \in Procs :
          LET r == req[p] IN
          (r.pc \in {"adj_audit", "adm_audit"} /\ req'[p] # r /\ auditLog' = auditLog) =>
              /\ Committed(p)
              /\ users' = users
              /\ ledger' = ledger
              /\ req'[p].pc = "done"
              /\ req'[p].status = 200 /\ req'[p].error = None
      ]_vars

\* An /adjust of -250 on a balance of 200 has been answered 200 with an
\* empty audit log: the balance is 0 and the admin_adjust entry is there.
C26_Witness ==
    \E p \in Procs :
        /\ Answered(p, "adjust") /\ req[p].status = 200
        /\ auditLog = << >>
        /\ req[p].pre["alice"].coins = 200
        /\ users["alice"].coins = 0
        /\ Len(ledger) = req[p].preLedger + 1
        /\ ledger[Len(ledger)].type = "admin_adjust" /\ ledger[Len(ledger)].amount = 250

\* A /set-bans has been answered 200 with an empty audit log.
C26_SetBans ==
    \E p \in Procs :
        /\ Answered(p, "set_bans") /\ req[p].status = 200
        /\ auditLog = << >>
        /\ users["bob"].isBannedFromCoins /\ ~req[p].pre["bob"].isBannedFromCoins

\* C27: transfer partial failure.  While a /transfer stands between its two
\* account writes, and after the recipient's write was rejected, the sender
\* is debited by the amount, the recipient's balance and every other account
\* are as the request found them, and the ledger has no new entry; the
\* rejected write is answered 500 "Server error", never as a success.
C27_TransferPartialFailure ==
    \A p \in Procs :
        LET r == req[p] IN
        (Current(p) /\ r.kind = "transfer") =>
            /\ (r.pc = "tr_save_target" \/ r.failedAt = "tr_save_target") =>
                  /\ users[r.actor].coins = r.pre[r.actor].coins - r.amt
                  /\ users[r.targetId].coins = r.pre[r.targetId].coins
                  /\ \A v \in AllIds \ {r.actor} : users[v] = r.pre[v]
                  /\ Len(ledger) = r.preLedger
            /\ r.failedAt = "tr_save_target" =>
                  /\ r.pc = "done"
                  /\ r.status = 500 /\ r.error = "Server error"

\* The recipient's write of a transfer of 50 was rejected: alice holds 150,
\* bob holds what he had, the ledger is as before, the answer is 500.
C27_Witness ==
    \E p \in Procs :
        /\ Current(p) /\ req[p].kind = "transfer"
        /\ req[p].failedAt = "tr_save_target"
        /\ req[p].status = 500
        /\ req[p].pre["alice"].coins = 200 /\ users["alice"].coins = 150
        /\ users["bob"].coins = req[p].pre["bob"].coins
        /\ ~req[p].pre["bob"].isBannedFromCoins
        /\ Len(ledger) = req[p].preLedger

-----------------------------------------------------------------------------
(* The entry points that touch a balance, on accounts that may have been
   soft-deleted; one request after the other *)

NextDeleted ==
    \E p \in {1} :
        \/ /\ Len(ledger) < Len(FundingLedger) + MaxLedger
           /\ Len(auditLog) < MaxLedger
           /\ \/ \E u \in {"alice", "root"} : StartDelete(p, "root", u)
              \/ StartTransfer(p, "alice", "bob", Num(50))
              \/ StartTransfer(p, "bob", "alice", Num(50))
              \/ StartDm(p, "alice", "bob", Num(50))
              \/ StartDm(p, "bob", "alice", Num(50))
              \/ StartBuy(p, "alice", "imageUpload")
              \/ StartLevelUp(p, "alice", Num(2))
              \/ \E d \in {Num(50), Num(-30)} : StartAdjust(p, "root", "alice", d, "")
              \/ StartAward(p, "alice", "FIRST_LOGIN")
        \/ DeleteFind(p) \/ DeleteSave(p) \/ DeleteAudit(p)
        \/ TransferFind(p) \/ TransferCount(p) \/ TransferSum(p)
        \/ TransferSaveUser(p) \/ TransferSaveTarget(p) \/ TransferCreateTx(p)
        \/ DmFind(p) \/ DmCreateTx(p) \/ DmCreateMessage(p) \/ RecordInc(p) \/ ApUpdate(p)
        \/ BuySave(p) \/ BuyCreateTx(p)
        \/ LevelSave(p) \/ LevelCreateTx(p)
        \/ AdjustFind(p) \/ AdjustSave(p) \/ AdjustCreateTx(p) \/ AdjustAudit(p)
        \/ AwardTryCoins(p) \/ AwardCreateTx(p) \/ AwardTryNoCoins(p) \/ AwardFindById(p)
        \/ Retire(p)

SpecDeleted == InitOps /\ [][NextDeleted]_vars

\* C28: soft-deleted accounts are excluded from balance mutation.  Every
\* account with isDeleted = true holds 0 coins, whatever requests followed
\* its deletion.
C28_DeletedBalanceStaysZero ==
    \A u \in UserIds : users[u].isDeleted => users[u].coins = 0

\* The other entry points: a /transfer, /dm/send, /buy-feature, /level-up or
\* awardAchievement that found an account deleted left that account's
\* balance as it was.
C28_OtherEntryPoints ==
    \A p \in Procs :
        \A u \in UserIds :
            (/\ req[p].kind \in {"transfer", "dm", "buy", "levelup", "award"}
             /\ req[p].pre[u].isDeleted) =>
                users[u].coins = req[p].pre[u].coins

\* A transfer to a deleted account has been carried out without a credit.
C28_TransferToDeleted ==
    \E p \in Procs :
        /\ Answered(p, "transfer") /\ req[p].status = 200
        /\ req[p].targetId = "alice" /\ req[p].pre["alice"].isDeleted
        /\ users["alice"].coins = req[p].pre["alice"].coins

\* A deleted account whose session is still open has been refused a
\* /buy-feature, and an award to it was recorded without coins.
C28_DeletedSender ==
    \E p \in Procs :
        /\ Answered(p, "buy") /\ req[p].pre["alice"].isDeleted /\ req[p].status = 403
C28_AwardToDeleted ==
    \E p \in Procs :
        /\ req[p].kind = "award" /\ req[p].pc = "done" /\ req[p].pre["alice"].isDeleted
        /\ "FIRST_LOGIN" \in HeldCodes("alice")
        /\ "FIRST_LOGIN" \notin {req[p].pre["alice"].achievements[i].code :
                                    i \in 1..Len(req[p].pre["alice"].achievements)}

-----------------------------------------------------------------------------
(* /transfer, /dm/send and /adjust with amounts that are not whole numbers.
   The handlers compute with JavaScript numbers; to carry 0.5 in integer
   arithmetic, every balance and amount of this specification is counted in
   half coins (2 is one coin).  The handlers' comparisons and sums are the
   same at either scale; the constants of dailyLimitsOK are not, and the
   amounts here stay far below them. *)

\* A number of coins, in half coins.
InHalves(coins) == 2 * coins

\* The amount is a whole number of coins.
IsWholeCoins(halves) == halves % 2 = 0

\* alice holds 10 coins and bob none; both bought "chat" with coins root
\* granted.
InitFraction ==
    /\ users = [i \in AllIds |->
          CASE i = "alice" -> [NewUser("user", 1, InHalves(10)) EXCEPT !.unlocks = {"chat"}]
            [] i = "bob"   -> [NewUser("user", 1, 0) EXCEPT !.unlocks = {"chat"}]
            [] i = "root"  -> NewUser("admin", 10, InHalves(999999))
            [] OTHER       -> NoUser]
    /\ initial = users
    /\ history = TRUE
    /\ now = 0
    /\ ledger =
          << Tx("admin_adjust", "root", "alice", InHalves(110), Desc("Admin adjust (+", "", 110, 0)),
             Tx("feature_purchase", "alice", None, InHalves(100),
                Desc("Feature purchase: ", "chat", 0, 0)),
             Tx("admin_adjust", "root", "bob", InHalves(100), Desc("Admin adjust (+", "", 100, 0)),
             Tx("feature_purchase", "bob", None, InHalves(100),
                Desc("Feature purchase: ", "chat", 0, 0)) >>
    /\ auditLog = << >>
    /\ req = [p \in Procs |-> IdleReq]

\* The amounts sent, 0.5 and 1 coin, and the deltas, +1.5 and -0.5 coins.
FractionAmounts == {Num(1), Num(2)}
FractionDeltas == {Num(3), Num(-1)}

NextFraction ==
    \E p \in {1} :
        \/ /\ Len(ledger) < Len(FundingLedger) + MaxLedger
           /\ \/ \E amt \in FractionAmounts : StartTransfer(p, "alice", "bob", amt)
              \/ \E amt \in FractionAmounts : StartDm(p, "alice", "bob", amt)
              \/ \E d \in FractionDeltas : StartAdjust(p, "root", "alice", d, "")
        \/ TransferFind(p) \/ TransferCount(p) \/ TransferSum(p)
        \/ TransferSaveUser(p) \/ TransferSaveTarget(p) \/ TransferCreateTx(p)
        \/ DmFind(p) \/ DmCreateTx(p) \/ DmCreateMessage(p) \/ RecordInc(p) \/ ApUpdate(p)
        \/ AdjustFind(p) \/ AdjustSave(p) \/ AdjustCreateTx(p) \/ AdjustAudit(p)
        \/ Retire(p)

SpecFraction == InitFraction /\ [][NextFraction]_vars

\* C29: balances and ledger amounts stay non-negative integers.  Starting
\* from whole balances, every account balance and every ledger amount is a
\* whole, non-negative number of coins, for every amount /transfer and
\* /dm/send accept and every delta /adjust accepts.
C29_NonNegativeIntegers ==
    /\ \A u \in UserIds : users[u].coins >= 0 /\ IsWholeCoins(users[u].coins)
    /\ \A i \in 1..Len(ledger) : ledger[i].amount >= 0 /\ IsWholeCoins(ledger[i].amount)

\* The part that holds: no balance and no ledger amount is negative.
C29_NonNegative ==
    /\ \A u \in UserIds : users[u].coins >= 0
    /\ \A i \in 1..Len(ledger) : ledger[i].amount >= 0

\* A /transfer of 0.5 coins has been carried out: alice holds 9.5, bob 0.5,
\* and the entry carries 0.5.
C29_HalfCoinSent ==
    \E p \in Procs :
        /\ Answered(p, "transfer") /\ req[p].status = 200
        /\ req[p].amt = 1
        /\ users["alice"].coins = InHalves(10) - 1
        /\ users["bob"].coins = 1
        /\ ledger[Len(ledger)].amount = 1

-----------------------------------------------------------------------------
(* recordFeatureAction calls on one account, interleaved *)

StatDeltas == {Num(1), Num(2), Num(-1)}

\* Each slot carries one call; the calls interleave at their store calls.
NextStats ==
    \E p \in Procs :
        \/ \E d \in StatDeltas :
              \/ StartRecord(p, "alice", "chat", "dmMessagesSent", d)
              \/ StartRecord(p, "alice", "imageUpload", "imagesSent", d)
        \/ RecordInc(p)
        \/ ApUpdate(p)

SpecStats == InitRecord /\ [][NextStats]_vars

\* The calls on account u naming sKey whose $inc has run.
Incremented(u, sKey) ==
    {p \in Procs : /\ req[p].kind = "record"
                   /\ req[p].actor = u
                   /\ req[p].statKey = sKey
                   /\ req[p].pc \in {"ap_update", "done"}}

\* The sum of the deltas of a set of calls.
RECURSIVE SumDeltas(_)
SumDeltas(P) ==
    IF P = {} THEN 0
    ELSE LET p == CHOOSE x \in P : TRUE
         IN  req[p].delta + SumDeltas(P \ {p})

\* C30: under every interleaving of concurrent recordFeatureAction calls on
\* one account, each stat counter equals its initial value plus the sum of the
\* deltas of the calls that named it and whose $inc has run, so no increment
\* is lost and a call on one statKey leaves every other counter as it was.
C30_StatsAtomicPerKey ==
    \A k \in StatKeys :
        users["alice"].stats[k] =
            initial["alice"].stats[k] + SumDeltas(Incremented("alice", k))

\* Two calls on the same counter, both started before either $inc ran, have
\* both incremented, while the other counter stands where it started.
C30_Witness ==
    \E p, q \in Procs :
        /\ p # q
        /\ {p, q} \subseteq Incremented("alice", "dmMessagesSent")
        /\ req[p].pre["alice"].stats["dmMessagesSent"] = 0
        /\ req[q].pre["alice"].stats["dmMessagesSent"] = 0
        /\ req[p].delta = 1 /\ req[q].delta = 2
        /\ users["alice"].stats["dmMessagesSent"] = 3
        /\ users["alice"].stats["imagesSent"] = 0

\* Calls on the two counters interleave and each counter holds its own delta.
C30_TwoKeys ==
    \E p, q \in Procs :
        /\ p \in Incremented("alice", "dmMessagesSent")
        /\ q \in Incremented("alice", "imagesSent")
        /\ req[q].pre["alice"].stats["dmMessagesSent"] = 0
        /\ req[p].pre["alice"].stats["imagesSent"] = 0
        /\ users["alice"].stats["dmMessagesSent"] = 1
        /\ users["alice"].stats["imagesSent"] = 2

-----------------------------------------------------------------------------
(* Termination: concurrent operations under fair scheduling of store calls *)

\* One awaited store call of the request on slot p, with the synchronous code
\* that follows it.
LiveStep(p) ==
    \/ TransferFind(p) \/ TransferCount(p) \/ TransferSum(p)
    \/ TransferSaveUser(p) \/ TransferSaveTarget(p) \/ TransferCreateTx(p)
    \/ BuySave(p) \/ BuyCreateTx(p)
    \/ LevelSave(p) \/ LevelCreateTx(p)
    \/ AdjustFind(p) \/ AdjustSave(p) \/ AdjustCreateTx(p) \/ AdjustAudit(p)
    \/ AwardTryCoins(p) \/ AwardCreateTx(p) \/ AwardTryNoCoins(p) \/ AwardFindById(p)
    \/ ApUpdate(p)

\* Each slot carries one request; awardAchievement is called by /level-up.
NextLive ==
    \E p \in Procs :
        \/ StartTransfer(p, "alice", "bob", Num(150))
        \/ StartBuy(p, "alice", "imageUpload")
        \/ StartLevelUp(p, "alice", Num(2))
        \/ StartAdjust(p, "root", "alice", Num(-250), "")
        \/ StartApOnce(p, "alice", "CHAT_DM_1", 5)
        \/ LiveStep(p)

\* The store answers every call: a request that awaits one is resumed.
SpecLive ==
    /\ InitCoins
    /\ [][NextLive]_vars
    /\ \A p \in Procs : WF_vars(LiveStep(p))

\* The longest sequence of store calls one awardAchievement call can still
\* make from pc: both conditional updates and the read, or the first update
\* and the ledger insert.
AwardCallsLeft(pc) ==
    CASE pc = "aw_coins"   -> 3
      [] pc = "aw_nocoins" -> 2
      [] pc = "aw_read"    -> 1
      [] pc = "aw_tx"      -> 1
      [] OTHER             -> 0

\* The store calls request r can still make: the calls left in the handler's
\* own sequence, with three for every awardAchievement call it has not begun
\* and one for every milestone left in the loop of recordFeatureAction.
CallsLeft(r) ==
    CASE r.pc \in {"aw_coins", "aw_nocoins", "aw_read", "aw_tx"}
                               -> AwardCallsLeft(r.pc) + 3 * (Len(r.codes) - 1)
      [] r.pc = "ap_update"      -> Len(r.ms)
      [] r.pc = "tr_find"        -> 6
      [] r.pc = "tr_count"       -> 5
      [] r.pc = "tr_sum"         -> 4
      [] r.pc = "tr_save_user"   -> 3
      [] r.pc = "tr_save_target" -> 2
      [] r.pc = "tr_tx"          -> 1
      [] r.pc = "buy_save"       -> 2
      [] r.pc = "buy_tx"         -> 1
      [] r.pc = "lv_save"        -> 2 + 3 * 2
      [] r.pc = "lv_tx"          -> 1 + 3 * 2
      [] r.pc = "adj_find"       -> 4
      [] r.pc = "adj_save"       -> 3
      [] r.pc = "adj_tx"         -> 2
      [] r.pc = "adj_audit"      -> 1
      [] OTHER                   -> 0

\* Every step of a request in flight uses up one of its remaining calls.
CallsDecrease ==
    \A p \in Procs :
        (InFlight(p) /\ req'[p] # req[p]) =>
            /\ CallsLeft(req'[p]) < CallsLeft(req[p])
            /\ req'[p].pc = "done" <=> CallsLeft(req'[p]) = 0

\* C31: every operation terminates without retrying.  Under fair scheduling
\* of the store calls, each step of awardAchievement, awardApOnce, /transfer,
\* /buy-feature, /level-up and /adjust uses up one call of a fixed budget
\* (three calls for one awardAchievement call, the ledger insert taking the
\* place of the two later account calls; one conditional update for
\* awardApOnce; six, two, eight and four for the routes), a conditional
\* update that matched nothing is followed by the next statement and not
\* repeated, and every request in flight is answered.
C31_OperationsTerminate ==
    /\ [][CallsDecrease]_vars
    /\ \A p \in Procs : InFlight(p) ~> (req[p].pc = "done")

\* Two /level-up requests to level 2 have been answered: the awardAchievement
\* call of one paid LEVEL2_UNLOCKED, and the call of the other, whose two
\* conditional updates both matched nothing, returned from the read.
C31_Witness ==
    \E p, q \in Procs :
        /\ p # q
        /\ Answered(p, "levelup") /\ req[p].status = 200 /\ req[p].path = "read"
        /\ Answered(q, "levelup") /\ req[q].status = 200 /\ req[q].path = "coins"

\* awardApOnce returns "not awarded" after its one update matched nothing.
C31_ApOnceNoMatch ==
    \E p \in Procs :
        /\ req[p].kind = "apOnce" /\ req[p].pc = "done" /\ req[p].ret = "not_awarded"

-----------------------------------------------------------------------------
(* Concurrent requests on the same accounts: what each answered request
   should have done to a balance *)

\* Each slot carries one request.
NextLost ==
    \E p \in Procs :
        \/ StartTransfer(p, "alice", "bob", Num(50))
        \/ StartBuy(p, "alice", "imageUpload")
        \/ StartAdjust(p, "root", "alice", Num(50), "")
        \/ StartAward(p, "alice", "FIRST_LOGIN")
        \/ TransferFind(p) \/ TransferCount(p) \/ TransferSum(p)
        \/ TransferSaveUser(p) \/ TransferSaveTarget(p) \/ TransferCreateTx(p)
        \/ BuySave(p) \/ BuyCreateTx(p)
        \/ AdjustFind(p) \/ AdjustSave(p) \/ AdjustCreateTx(p) \/ AdjustAudit(p)
        \/ AwardTryCoins(p) \/ AwardCreateTx(p) \/ AwardTryNoCoins(p) \/ AwardFindById(p)

SpecLost == InitCoins /\ [][NextLost]_vars

\* What the answered request on slot p reports to have done to the balance
\* of account u: the debit and the credit of a transfer answered 200, the
\* price of a purchase answered 200, the delta of an adjustment answered 200,
\* the reward of an awardAchievement call that returned from its coin path.
Reported(p, u) ==
    LET r == req[p] IN
    IF r.pc # "done" THEN 0
    ELSE CASE r.kind = "transfer" /\ r.status = 200 ->
                  (IF r.actor = u THEN 0 - r.amt ELSE 0)
                  + (IF r.targetId = u /\ ~r.target.isBannedFromCoins THEN r.amt ELSE 0)
           [] r.kind = "buy" /\ r.status = 200 ->
                  IF r.actor = u THEN 0 - r.amt ELSE 0
           [] r.kind = "adjust" /\ r.status = 200 ->
                  IF r.targetId = u THEN r.amt ELSE 0
           [] r.kind = "award" /\ r.path = "coins" ->
                  IF r.actor = u THEN Reward(r.awarded) ELSE 0
           [] OTHER -> 0

RECURSIVE SumReported(_, _)
SumReported(P, u) ==
    IF P = {} THEN 0
    ELSE LET p == CHOOSE x \in P : TRUE
         IN  Reported(p, u) + SumReported(P \ {p}, u)

\* C32: no balance update is lost.  Once the requests of an interleaving
\* have all been answered, each account's balance equals its initial balance
\* plus the credits and minus the debits of the requests that reported
\* success.
C32_NoLostUpdate ==
    Quiet => \A u \in UserIds :
                users[u].coins = initial[u].coins + SumReported(Procs, u)

\* The part that holds: the credit of awardAchievement is an increment on the
\* stored balance, so two such credits, or a credit landing after a route's
\* save, are both kept; a balance is lost only to a route's save() of a
\* balance computed on a document loaded before another write.
C32_IncrementsKept ==
    [][\A p \in Procs :
          (req[p].pc = "aw_coins" /\ req'[p].pc = "aw_tx")
          => users'[req[p].actor].coins
                = users[req[p].actor].coins + Reward(Head(req[p].codes))]_vars

\* A transfer and a reward on alice have both been answered as successful,
\* and the 10 coins of the reward are gone from her balance.
C32_RewardOverwritten ==
    \E p, q \in Procs :
        /\ Quiet
        /\ req[p].kind = "transfer" /\ req[p].status = 200
        /\ req[q].kind = "award" /\ req[q].path = "coins"
        /\ users["alice"].coins = initial["alice"].coins - 50

\* The feature_purchase entries of account u for feature key.
PurchaseEntries(u, key) ==
    SelectSeq(ledger, LAMBDA t : /\ t.type = "feature_purchase"
                                 /\ t.fromUserId = u
                                 /\ t.description = Desc("Feature purchase: ", key, 0, 0))

\* The /buy-feature requests of u for key that were answered 200.
Buyers(u, key) ==
    {p \in Procs : /\ Answered(p, "buy") /\ req[p].status = 200
                   /\ req[p].actor = u /\ req[p].key = key}

\* C33: a feature is bought at most once.  For every account and feature
\* key, under every interleaving of /buy-feature requests, at most one
\* request is answered 200 and at most one feature_purchase entry exists for
\* that account and feature.
C33_BoughtAtMostOnce ==
    \A u \in UserIds, key \in DOMAIN FEATURE_PRICES :
        /\ Cardinality(Buyers(u, key)) <= 1
        /\ Len(PurchaseEntries(u, key)) <= 1

\* The part that holds: requests served one after the other leave at most one
\* entry per account and feature.
C33_SequentialOnce ==
    \A u \in UserIds, key \in DOMAIN FEATURE_PRICES : Len(PurchaseEntries(u, key)) <= 1

\* Two requests bought imageUpload for alice: two entries of 150 coins in the
\* ledger, and 150 coins deducted from her balance.
C33_DoublePurchase ==
    /\ Quiet
    /\ Cardinality(Buyers("alice", "imageUpload")) = 2
    /\ Len(PurchaseEntries("alice", "imageUpload")) = 2
    /\ users["alice"].coins = initial["alice"].coins - Price("imageUpload")

-----------------------------------------------------------------------------
(* awardAchievement calls while an admin sets the coin ban *)

\* Each slot carries one call or request; alice starts banned or not.
NextBanRace ==
    \E p \in Procs :
        \/ StartAward(p, "alice", "FIRST_LOGIN")
        \/ \E ban \in BOOLEAN : StartSetBans(p, "root", "alice", Absent, Bool(ban))
        \/ AwardTryCoins(p) \/ AwardCreateTx(p) \/ AwardTryNoCoins(p) \/ AwardFindById(p)
        \/ AdminFind(p) \/ AdminSave(p) \/ AdminCreateTx(p) \/ AdminAudit(p)

SpecBanRace == InitAward /\ [][NextBanRace]_vars

\* A write adds code to the achievement set of account u.
Granted(u, code) ==
    /\ ~HasAchievement(users[u], code)
    /\ HasAchievement(users'[u], code)

\* C34: coins accompany every grant to a non-banned account.  Every write
\* that adds an achievement with a positive catalog reward to the set of an
\* account that is not coin-banned at the moment of the write credits the
\* reward in the same write, also when an admin changes the coin-ban flag
\* between the two conditional updates of one awardAchievement call.
C34_CoinsAccompanyGrant ==
    [][\A u \in UserIds, code \in AchievementCodes :
          (Granted(u, code) /\ Reward(code) > 0 /\ ~users[u].isBannedFromCoins)
          => users'[u].coins = users[u].coins + Reward(code)]_vars

\* The part that holds: the first conditional update, the only one with the
\* ban clause, credits the reward whenever it grants.
C34_FirstUpdateCredits ==
    [][\A p \in Procs :
          (req[p].pc = "aw_coins" /\ req'[p] # req[p]
             /\ Granted(req[p].actor, Head(req[p].codes)))
          => /\ ~users[req[p].actor].isBannedFromCoins
             /\ users'[req[p].actor].coins
                   = users[req[p].actor].coins + Reward(Head(req[p].codes))]_vars

\* alice was banned at the first update and unbanned before the second: she
\* holds FIRST_LOGIN, is not coin-banned, and has neither the 10 coins nor an
\* achievement_reward entry.
C34_GrantWithoutCoins ==
    \E p, q \in Procs :
        /\ Quiet
        /\ req[p].kind = "award" /\ req[p].path = "nocoins"
        /\ req[q].kind = "set_bans" /\ req[q].status = 200
        /\ ~users["alice"].isBannedFromCoins
        /\ HasAchievement(users["alice"], "FIRST_LOGIN")
        /\ users["alice"].coins = 0
        /\ Len(RewardEntries("alice", "FIRST_LOGIN")) = 0

-----------------------------------------------------------------------------
(* recordFeatureAction and awardApOnce calls on one account, interleaved *)

\* The direct awardApOnce calls: the codes of the catalog with their ap.
PointCalls == { <<"CHAT_DM_1", 5>>, <<"CHAT_DM_2", 10>> }

\* Each slot carries one call.
NextPoints ==
    \E p \in Procs :
        \/ \E d \in StatDeltas :
              \/ StartRecord(p, "alice", "chat", "dmMessagesSent", d)
              \/ StartRecord(p, "alice", "imageUpload", "imagesSent", d)
        \/ \E c \in PointCalls : StartApOnce(p, "alice", c[1], c[2])
        \/ RecordInc(p)
        \/ ApUpdate(p)

SpecPoints == InitRecord /\ [][NextPoints]_vars

\* The total of account u is the sum of the ap of the codes recorded on it.
PointsMatchSet(u) ==
    /\ users[u].achievementPoints = SumAp(AwardedSet(u))
    /\ \A c \in AwardedSet(u) : Count(users[u].awardedAchievements, c) = 1

\* A step leaves the recorded codes and the total of u as they are, or is
\* the update of one awardApOnce call that adds its code to the set and its
\* ap to the total.
PointsStep(u) ==
    LET before == AwardedSet(u)
        after == {users'[u].awardedAchievements[i] :
                     i \in 1..Len(users'[u].awardedAchievements)}
    IN  \/ /\ after = before
           /\ users'[u].achievementPoints = users[u].achievementPoints
        \/ \E p \in Procs :
              /\ req[p].pc = "ap_update" /\ req[p].actor = u
              /\ Head(req[p].ms).code \notin before
              /\ after = before \cup {Head(req[p].ms).code}
              /\ Head(req[p].ms).ap > 0
              /\ users'[u].achievementPoints
                    = users[u].achievementPoints + Head(req[p].ms).ap

\* C35: achievement points equal the recorded milestones.  In every
\* reachable state each account's achievement-point total is the sum of the
\* ap with which the codes of its awarded-milestone set were awarded; no step
\* shrinks the set or the total, and a recordFeatureAction call with a
\* negative delta takes back neither a milestone nor its points.
C35_PointsEqualMilestones ==
    /\ [](\A u \in UserIds : PointsMatchSet(u))
    /\ [][\A u \in UserIds : PointsStep(u)]_vars

\* A call with a negative delta has brought the counter back below the second
\* threshold; the two milestones and their 15 points are still recorded.
C35_Witness ==
    \E p \in Procs :
        /\ RecordDone(p)
        /\ req[p].actor = "alice"
        /\ req[p].statKey = "dmMessagesSent"
        /\ req[p].delta < 0
        /\ users["alice"].stats["dmMessagesSent"] < 2
        /\ AwardedSet("alice") = {"CHAT_DM_1", "CHAT_DM_2"}
        /\ users["alice"].achievementPoints = 15

-----------------------------------------------------------------------------
(* POST /transfer and POST /dm/send with coins, one request after the other,
   around the daily transfer count *)

\* alice, no admin, holds 25 coins granted by root; she and bob have unlocked
\* chat through the admin.
InitRateDm ==
    /\ users = [i \in AllIds |->
          CASE i = "alice" -> [NewUser("user", 1, 25) EXCEPT !.unlocks = {"chat"}]
            [] i = "bob"   -> [NewUser("user", 1, 0) EXCEPT !.unlocks = {"chat"}]
            [] i = "root"  -> NewUser("admin", 10, 999999)
            [] OTHER       -> NoUser]
    /\ initial = users
    /\ history = TRUE
    /\ now = 0
    /\ ledger = << Tx("admin_adjust", "root", "alice", 25, Desc("Admin adjust", "", 0, 0)) >>
    /\ auditLog = << >>
    /\ req = [p \in Procs |-> IdleReq]

\* All requests arrive within one window.
NextRateDm ==
    \E p \in {1} :
        \/ /\ Len(TransfersSince("alice", 0)) < MaxRateLedger
           /\ \/ StartTransfer(p, "alice", "bob", Num(1))
              \/ StartDm(p, "alice", "bob", Num(1))
        \/ TransferFind(p) \/ TransferCount(p) \/ TransferSum(p)
        \/ TransferSaveUser(p) \/ TransferSaveTarget(p) \/ TransferCreateTx(p)
        \/ DmFind(p) \/ DmCreateTx(p) \/ DmCreateMessage(p) \/ RecordInc(p) \/ ApUpdate(p)
        \/ Retire(p)

SpecRateDm == InitRateDm /\ [][NextRateDm]_vars

\* The transfer entries of sender u inside the trailing window.
InWindow(u) == Len(TransfersSince(u, now - WindowHours))

\* C36: every transfer entry of a non-admin passed the rate window.  With
\* the requests served one after the other, a sender who is no admin never has
\* more than 20 transfer entries inside the trailing 24 hours, whether the
\* entries come from /transfer or from the coin branch of /dm/send.
C36_TransfersWithinWindow ==
    \A u \in UserIds : users[u].role # "admin" => InWindow(u) <= MaxTransfers

\* The part that holds: a /transfer request of a non-admin that appended an
\* entry found fewer than 20 entries inside the window when it counted them.
C36_TransferRouteChecked ==
    [][\A p \in Procs :
          (req[p].kind = "transfer" /\ req[p].pc = "tr_tx" /\ req'[p].pc = "done"
             /\ req[p].user.role # "admin")
          => Len(TransfersSince(req[p].actor, req[p].since)) < MaxTransfers]_vars

\* alice has sent coins by /dm/send with 20 transfers already inside the
\* window: the request was answered 200 and the window holds 21 entries.
C36_DmPastLimit ==
    \E p \in Procs :
        /\ Answered(p, "dm") /\ req[p].status = 200
        /\ req[p].amt > 0
        /\ PriorInWindow(p) = MaxTransfers
        /\ InWindow("alice") = MaxTransfers + 1

-----------------------------------------------------------------------------
(* Concurrent POST /level-up requests on one account *)

RaceLevels == {Num(2), Num(3)}

\* Each slot carries one request; there is no admin set-level.
NextLevelRace ==
    \E p \in Procs :
        \/ \E lvl \in RaceLevels : StartLevelUp(p, "alice", lvl)
        \/ LevelSave(p) \/ LevelCreateTx(p)
        \/ AwardTryCoins(p) \/ AwardCreateTx(p) \/ AwardTryNoCoins(p) \/ AwardFindById(p)

SpecLevelRace == InitLevel /\ [][NextLevelRace]_vars

\* C37: level never decreases through /level-up.  Under every interleaving
\* of /level-up requests on one account, with no admin set-level, no step
\* lowers the account's stored level.
C37_LevelNeverDecreases ==
    [][\A u \in UserIds : users'[u].level >= users[u].level]_vars

\* The part that holds: every /level-up save writes a level above the one of
\* the document the request loaded, and for a non-admin the loaded balance
\* less 100 coins per level of that distance.
C37_SaveAboveLoaded ==
    [][\A p \in Procs :
          (req[p].pc = "lv_save" /\ req'[p].pc = "lv_tx")
          => LET u == req[p].actor IN
             /\ users'[u].level > req[p].user.level
             /\ req[p].user.role # "admin"
                => users'[u].coins = req[p].user.coins
                      - CoinsPerLevel * (users'[u].level - req[p].user.level)]_vars

\* Two requests loaded alice at level 1; the one for level 3 saved first and
\* the one for level 2 after it: both were answered 200 and alice stands at
\* level 2.
C37_LevelLowered ==
    \E p, q \in Procs :
        /\ Answered(p, "levelup") /\ req[p].status = 200 /\ req[p].lvl = 3
        /\ Answered(q, "levelup") /\ req[q].status = 200 /\ req[q].lvl = 2
        /\ users["alice"].level = 2

-----------------------------------------------------------------------------
(* awardAchievement, recordFeatureAction and awardApOnce calls on one
   account, interleaved *)

\* Each slot carries one call.
NextFrame ==
    \E p \in Procs :
        \/ StartAward(p, "alice", "FIRST_LOGIN")
        \/ \E d \in StatDeltas : StartRecord(p, "alice", "chat", "dmMessagesSent", d)
        \/ StartApOnce(p, "alice", "CHAT_DM_2", 10)
        \/ AwardTryCoins(p) \/ AwardCreateTx(p) \/ AwardTryNoCoins(p) \/ AwardFindById(p)
        \/ RecordInc(p)
        \/ ApUpdate(p)

SpecFrame == InitRecord /\ [][NextFrame]_vars

\* The call on slot p takes this step.
Steps(p) == req'[p] # req[p]

\* The fields of the coin and achievement side of every account are as before.
CoinSideUnchanged ==
    /\ ledger' = ledger
    /\ \A u \in AllIds :
          /\ users'[u].coins = users[u].coins
          /\ users'[u].achievements = users[u].achievements
          /\ users'[u].level = users[u].level
          /\ users'[u].unlocks = users[u].unlocks

\* The fields of the milestone side of every account are as before.
PointSideUnchanged ==
    \A u \in AllIds :
        /\ users'[u].awardedAchievements = users[u].awardedAchievements
        /\ users'[u].achievementPoints = users[u].achievementPoints
        /\ users'[u].stats = users[u].stats

\* C38: reward namespaces do not interfere.  Every step of awardApOnce and
\* of recordFeatureAction leaves each account's balance, achievement set,
\* level and unlock flags as they were and appends no ledger entry; every
\* step of awardAchievement leaves the awarded-milestone set, the
\* achievement-point total and the stat counters as they were.
C38_NamespacesSeparate ==
    [][\A p \in Procs :
          /\ (Steps(p) /\ req'[p].kind \in {"record", "apOnce"}) => CoinSideUnchanged
          /\ (Steps(p) /\ req'[p].kind = "award") => PointSideUnchanged]_vars

\* An awardAchievement call paid its reward and a recordFeatureAction call
\* recorded a milestone on the same account, interleaved: alice holds the 10
\* coins, one ledger entry, one message counted and the 5 points.
C38_Witness ==
    \E p, q \in Procs :
        /\ req[p].kind = "award" /\ req[p].pc = "done" /\ req[p].path = "coins"
        /\ RecordDone(q) /\ req[q].nAwarded = 1
        /\ req[p].pre["alice"].stats["dmMessagesSent"] = 0
        /\ req[q].pre["alice"].coins = 0
        /\ users["alice"].coins = 10
        /\ Len(ledger) = 1
        /\ users["alice"].stats["dmMessagesSent"] = 1
        /\ users["alice"].achievementPoints = 5
        /\ AwardedSet("alice") = {"CHAT_DM_1"}

=============================================================================
